---- MODULE Spec2Model ----
(***************************************************************************)
(* A model of the tabulator parser: tab_parser.py (text -> TabScore),      *)
(* tab_render_model.py (TabScore -> text) and the data of tab_model.py.    *)
(* Text lines are TLA+ strings; columns are 0-based as in the source.      *)
(* Exact rationals (fractions.Fraction) are records [n, d] in lowest       *)
(* terms with d > 0.  Optional[int] fields use -1 for None.                *)
(***************************************************************************)
EXTENDS Integers, Sequences, FiniteSets, TLC

\* ------------------------------------------------------------------------
\* Characters and strings (Python str operations used by the source)
\* ------------------------------------------------------------------------

\* s[k] for a 0-based index (the empty string when k is out of range)
At(s, k) == IF k >= 0 /\ k < Len(s) THEN SubSeq(s, k + 1, k + 1) ELSE ""

\* s[a:b] for 0 <= a
Slice(s, a, b) ==
    LET hi == IF b < Len(s) THEN b ELSE Len(s)
    IN  IF a >= hi THEN "" ELSE SubSeq(s, a + 1, hi)

\* s[a:]
SliceFrom(s, a) == Slice(s, a, Len(s))

Digits == {"0", "1", "2", "3", "4", "5", "6", "7", "8", "9"}

\* regex \s restricted to the whitespace of the modelled alphabet
Whitespace == {" "}

\* str.isdigit() on one character
IsDigit(c) == c \in Digits

DigitVal(c) ==
    CASE c = "0" -> 0 [] c = "1" -> 1 [] c = "2" -> 2 [] c = "3" -> 3
      [] c = "4" -> 4 [] c = "5" -> 5 [] c = "6" -> 6 [] c = "7" -> 7
      [] c = "8" -> 8 [] c = "9" -> 9

UpperLetters == "ABCDEFGHIJKLMNOPQRSTUVWXYZ"
LowerLetters == "abcdefghijklmnopqrstuvwxyz"

\* str.lower() / str.upper() / str.islower() on one character
LowerCh(c) ==
    IF \E k \in 0..25 : At(UpperLetters, k) = c
    THEN At(LowerLetters, CHOOSE k \in 0..25 : At(UpperLetters, k) = c)
    ELSE c

UpperCh(c) ==
    IF \E k \in 0..25 : At(LowerLetters, k) = c
    THEN At(UpperLetters, CHOOSE k \in 0..25 : At(LowerLetters, k) = c)
    ELSE c

IsLowerCh(c) == \E k \in 0..25 : At(LowerLetters, k) = c

\* end index of the longest run of characters of S starting at k (greedy X*)
RECURSIVE SpanEnd(_, _, _)
SpanEnd(s, k, S) ==
    IF k < Len(s) /\ At(s, k) \in S THEN SpanEnd(s, k + 1, S) ELSE k

\* start index of the longest run of characters of S ending before k
RECURSIVE SpanStart(_, _, _)
SpanStart(s, k, S) ==
    IF k > 0 /\ At(s, k - 1) \in S THEN SpanStart(s, k - 1, S) ELSE k

\* str.strip(), str.lstrip(), str.rstrip()
LStrip(s) == SliceFrom(s, SpanEnd(s, 0, Whitespace))
RStrip(s) == Slice(s, 0, SpanStart(s, Len(s), Whitespace))
Strip(s) == RStrip(LStrip(s))

\* str.ljust(width)
RECURSIVE LJust(_, _)
LJust(s, width) == IF Len(s) >= width THEN s ELSE LJust(s \o " ", width)

\* ch * n
RECURSIVE Repeat(_, _)
Repeat(ch, n) == IF n <= 0 THEN "" ELSE ch \o Repeat(ch, n - 1)

\* int(s[a:b]) for a run of decimal digits
RECURSIVE ParseInt(_, _, _)
ParseInt(s, a, b) ==
    IF b <= a THEN 0 ELSE 10 * ParseInt(s, a, b - 1) + DigitVal(At(s, b - 1))

\* str(n) for n >= 0
RECURSIVE IntToStr(_)
IntToStr(n) ==
    LET d == At("0123456789", n % 10)
    IN  IF n < 10 THEN d ELSE IntToStr(n \div 10) \o d

\* f"{n:02d}"
TwoDigits(n) == IF n < 10 THEN "0" \o IntToStr(n) ELSE IntToStr(n)

\* s.startswith(p), case-insensitively (re.IGNORECASE on a literal)
RECURSIVE StartsWithCI(_, _)
StartsWithCI(s, p) ==
    IF Len(p) = 0 THEN TRUE
    ELSE /\ Len(s) > 0
         /\ LowerCh(At(s, 0)) = LowerCh(At(p, 0))
         /\ StartsWithCI(SliceFrom(s, 1), SliceFrom(p, 1))

\* p in s
Contains(s, p) ==
    \E k \in 0..Len(s) : Slice(s, k, k + Len(p)) = p /\ k + Len(p) <= Len(s)

\* any(ch in S for ch in s)
AnyCharIn(s, S) == \E k \in 0..(Len(s) - 1) : At(s, k) \in S

\* ------------------------------------------------------------------------
\* fractions.Fraction
\* ------------------------------------------------------------------------

Abs(x) == IF x < 0 THEN -x ELSE x

RECURSIVE Gcd(_, _)
Gcd(a, b) == IF b = 0 THEN a ELSE Gcd(b, a % b)

\* Fraction(n, d) for d # 0 (Fraction(n, 0) raises ZeroDivisionError)
Frac(n, d) ==
    LET g == Gcd(Abs(n), Abs(d))
        sgn == IF d < 0 THEN -1 ELSE 1
    IN  [n |-> sgn * (n \div g), d |-> Abs(d) \div g]

FAdd(x, y) == Frac(x.n * y.d + y.n * x.d, x.d * y.d)
FMul(x, y) == Frac(x.n * y.n, x.d * y.d)
FLt(x, y) == x.n * y.d < y.n * x.d
FLe(x, y) == x.n * y.d <= y.n * x.d
FInt(k) == [n |-> k, d |-> 1]

\* int(t) for t >= 0 (truncation)
FFloor(x) == x.n \div x.d

\* ------------------------------------------------------------------------
\* Header (tab_parser.py: _parse_header)
\* ------------------------------------------------------------------------

\* title = artist = None
NoText == ""
\* the None of the Optional[int] fields (capo, fret, pitch, multibar_rests,
\* raw_columns), whose values are never negative
None == -1

\* re.match(r"^<key>\s*(.+)$", line, re.IGNORECASE) on a stripped line
MatchesTextField(line, key) ==
    /\ StartsWithCI(line, key)
    /\ SpanEnd(line, Len(key), Whitespace) < Len(line)

\* m.group(1).strip()
TextFieldValue(line, key) == Strip(SliceFrom(line, SpanEnd(line, Len(key), Whitespace)))

\* re.match(r"^capo:\s*(\d+)\s*$", line, re.IGNORECASE) on a stripped line
MatchesCapo(line) ==
    LET a == SpanEnd(line, 5, Whitespace)
        b == SpanEnd(line, a, Digits)
    IN  /\ StartsWithCI(line, "capo:")
        /\ b > a
        /\ SpanEnd(line, b, Whitespace) = Len(line)

CapoValue(line) ==
    LET a == SpanEnd(line, 5, Whitespace)
    IN  ParseInt(line, a, SpanEnd(line, a, Digits))

\* the while loop of _parse_header, from line index i (0-based)
RECURSIVE HeaderScan(_, _, _, _, _)
HeaderScan(lines, i, title, artist, capo) ==
    IF i >= Len(lines)
    THEN [title |-> title, artist |-> artist, capo |-> capo, idx |-> i]
    ELSE LET line == Strip(lines[i + 1])
         IN  IF line = "" THEN HeaderScan(lines, i + 1, title, artist, capo)
             ELSE IF MatchesTextField(line, "title:")
             THEN HeaderScan(lines, i + 1, TextFieldValue(line, "title:"), artist, capo)
             ELSE IF MatchesTextField(line, "artist:")
             THEN HeaderScan(lines, i + 1, title, TextFieldValue(line, "artist:"), capo)
             ELSE IF MatchesCapo(line)
             THEN HeaderScan(lines, i + 1, title, artist, CapoValue(line))
             ELSE [title |-> title, artist |-> artist, capo |-> capo, idx |-> i]

\* lines 79-82 raising only when both fields are missing
ParseHeaderMissingBoth(h) == h.title = NoText /\ h.artist = NoText

\* lines 79-82: "if not title or not artist: raise TabParseError"
ParseHeaderRaises(h) == h.title = NoText \/ h.artist = NoText

\* _parse_header: raised is the TabParseError of line 80
ParseHeader(lines) ==
    LET h == HeaderScan(lines, 0, NoText, NoText, None)
    IN  [raised |-> ParseHeaderRaises(h), title |-> h.title, artist |-> h.artist,
         capo |-> h.capo, idx |-> h.idx]

\* ------------------------------------------------------------------------
\* Line classification (tab_parser.py: module regexes, _is_string_line,
\* _is_annotation_or_duration)
\* ------------------------------------------------------------------------

DURATION_SYMBOLS ==
    {"W", "H", "Q", "E", "S", "T", "X", "a", "w", "h", "q", "e", "s", "t", "x"}

\* _TS_RE = ^\s*(\d+)\s*/\s*(\d+)\s*$ : the six span ends, or <<>> on no match
TsSpans(s) ==
    LET a == SpanEnd(s, 0, Whitespace)
        b == SpanEnd(s, a, Digits)
        c == SpanEnd(s, b, Whitespace)
        d == SpanEnd(s, c + 1, Whitespace)
        e == SpanEnd(s, d, Digits)
        f == SpanEnd(s, e, Whitespace)
    IN  IF b > a /\ At(s, c) = "/" /\ e > d /\ f = Len(s)
        THEN <<a, b, d, e>> ELSE <<>>

IsTimeSig(s) == TsSpans(s) # <<>>

\* TimeSignature(int(m.group(1)), int(m.group(2)))
TimeSigOf(s) ==
    LET m == TsSpans(s)
    IN  [numerator |-> ParseInt(s, m[1], m[2]), denominator |-> ParseInt(s, m[3], m[4])]

\* _TIMESTAMP_RE = ^\s*(\d+):(\d{2})\s*$
IsTimestamp(s) ==
    LET a == SpanEnd(s, 0, Whitespace)
        b == SpanEnd(s, a, Digits)
    IN  /\ b > a
        /\ At(s, b) = ":"
        /\ IsDigit(At(s, b + 1))
        /\ IsDigit(At(s, b + 2))
        /\ SpanEnd(s, b + 3, Whitespace) = Len(s)

\* f"{mm}:{ss:02d}"
TimestampOf(s) ==
    LET a == SpanEnd(s, 0, Whitespace)
        b == SpanEnd(s, a, Digits)
    IN  IntToStr(ParseInt(s, a, b)) \o ":" \o TwoDigits(ParseInt(s, b + 1, b + 3))

StringLetters == {"A", "B", "C", "D", "E", "F", "G", "a", "b", "c", "d", "e", "f", "g"}

\* _STRING_LABELED_RE = ^\s*([A-Ga-g])([#b])?\s*\| : [found, label, end]
LabeledMatch(s) ==
    LET a == SpanEnd(s, 0, Whitespace)
        withAcc == SpanEnd(s, a + 2, Whitespace)
        noAcc == SpanEnd(s, a + 1, Whitespace)
    IN  IF At(s, a) \notin StringLetters
        THEN [found |-> FALSE, label |-> "", end |-> 0]
        ELSE IF At(s, a + 1) \in {"#", "b"} /\ At(s, withAcc) = "|"
        THEN [found |-> TRUE, label |-> Slice(s, a, a + 2), end |-> withAcc + 1]
        ELSE IF At(s, noAcc) = "|"
        THEN [found |-> TRUE, label |-> At(s, a), end |-> noAcc + 1]
        ELSE [found |-> FALSE, label |-> "", end |-> 0]

\* _STRING_UNLABELED_RE = ^\s*\|
UnlabeledMatch(s) == At(s, SpanEnd(s, 0, Whitespace)) = "|"

\* the character classes of _TRIPLET_RE within the modelled (ASCII) alphabet
TripletBar == {"|"}
TripletDash == {"-"}

\* _TRIPLET_RE matched at position p: the end of the match, or -1
TripletEndAt(s, p) ==
    LET a == SpanEnd(s, p + 1, Whitespace)
        b == SpanEnd(s, a, TripletDash)
        c == SpanEnd(s, b, Whitespace)
        d == SpanEnd(s, c + 1, Whitespace)
        e == SpanEnd(s, d, TripletDash)
        f == SpanEnd(s, e, Whitespace)
    IN  IF /\ At(s, p) \in TripletBar
           /\ b > a
           /\ At(s, c) = "3"
           /\ e > d
           /\ At(s, f) \in TripletBar
        THEN f + 1 ELSE -1

\* _TRIPLET_RE.search(s)
TripletSearch(s) == \E p \in 0..(Len(s) - 1) : TripletEndAt(s, p) # -1

IsStringLine(line) ==
    IF LabeledMatch(line).found THEN TRUE
    ELSE IF UnlabeledMatch(line)
    THEN LET s == Strip(line)
         IN  IF TripletSearch(s) THEN FALSE
             ELSE IF Slice(s, 0, 2) = "PM" THEN FALSE
             ELSE TRUE
    ELSE FALSE

IsAnnotationOrDuration(line) ==
    LET s == Strip(line)
    IN  IF s = "" THEN FALSE
        ELSE \/ IsTimeSig(s) \/ IsTimestamp(s)
             \/ Contains(s, "PM")
             \/ TripletSearch(s)
             \/ AnyCharIn(s, DURATION_SYMBOLS)

\* re.match(r"^\s*(title|artist|capo)\s*:", s, re.IGNORECASE)
IsHeaderFieldLine(s) ==
    LET a == SpanEnd(s, 0, Whitespace)
        t == SliceFrom(s, a)
    IN  \E key \in {"title", "artist", "capo"} :
            StartsWithCI(t, key) /\ At(t, SpanEnd(t, Len(key), Whitespace)) = ":"

\* ------------------------------------------------------------------------
\* Block segmenter (tab_parser.py: _collect_system_block)
\* ------------------------------------------------------------------------

\* loop 1: the index where the leading annotation lines end, or -1 for
\* the three "return [], 0" exits
RECURSIVE CollectLeading(_, _)
CollectLeading(lines, i) ==
    IF i >= Len(lines) THEN i
    ELSE LET s == lines[i + 1]
         IN  IF Strip(s) = "" THEN -1
             ELSE IF IsTimestamp(s) THEN -1
             ELSE IF IsStringLine(s) THEN i
             ELSE IF IsAnnotationOrDuration(s) \/ IsTimeSig(Strip(s))
             THEN CollectLeading(lines, i + 1)
             ELSE -1

\* loop 2: the index where the block ends
RECURSIVE CollectStrings(_, _)
CollectStrings(lines, i) ==
    IF i >= Len(lines) THEN i
    ELSE LET s == lines[i + 1]
         IN  IF Strip(s) = "" THEN i
             ELSE IF IsTimestamp(s) THEN i
             ELSE IF IsHeaderFieldLine(s) THEN i
             ELSE IF IsStringLine(s) THEN CollectStrings(lines, i + 1)
             ELSE IF IsAnnotationOrDuration(s) \/ IsTimeSig(Strip(s))
             THEN CollectStrings(lines, i + 1)
             ELSE i

\* block entries are (line_no, line_text) pairs
BlockOf(lines, start, stop) ==
    [k \in 1..(stop - start) |-> [no |-> start + k, text |-> lines[start + k]]]

\* string_count: the string lines of lines[lead..stop)
CountStringLines(lines, lead, stop) ==
    Cardinality({k \in (lead + 1)..stop : IsStringLine(lines[k])})

\* lines 211-213
CollectedTo(lines, start, lead, stop) ==
    IF CountStringLines(lines, lead, stop) = 0 THEN [block |-> <<>>, consumed |-> 0]
    ELSE [block |-> BlockOf(lines, start, stop), consumed |-> stop - start]

\* lines 186-209
CollectedFrom(lines, start, lead) ==
    IF lead = -1 THEN [block |-> <<>>, consumed |-> 0]
    ELSE CollectedTo(lines, start, lead, CollectStrings(lines, lead))

\* _collect_system_block
CollectSystemBlock(lines, start) ==
    CollectedFrom(lines, start, CollectLeading(lines, start))

\* ------------------------------------------------------------------------
\* Bar tokens (tab_parser.py: _find_bar_tokens, _barline_from_token)
\* ------------------------------------------------------------------------

\* the alternatives of token_re, in the order the regex tries them
BarAlternatives == <<"||o", "o||", "||", "*|", "|">>

\* the same alternatives tried shortest first
BarAlternativesShortFirst == <<"|", "||", "*|", "||o", "o||">>

\* the alternative of least index among hits, or "" when there is none
FirstHit(hits, alts) ==
    IF hits = {} THEN "" ELSE alts[CHOOSE k \in hits : \A j \in hits : k <= j]

\* the first alternative of alts that matches at p, or "" when none does
FirstAlternativeAt(s, p, alts) ==
    FirstHit({k \in DOMAIN alts : Slice(s, p, p + Len(alts[k])) = alts[k]}, alts)

BarTokenAtShortFirst(s, p) == FirstAlternativeAt(s, p, BarAlternativesShortFirst)

\* token_re matched at position p
BarTokenAt(s, p) == FirstAlternativeAt(s, p, BarAlternatives)

\* token_re.finditer(s) from position p: (start, end, token) triples; tok
\* is the match at p
RECURSIVE FindBarTokensFrom(_, _)
RECURSIVE BarTokensAfter(_, _, _)
BarTokensAfter(s, p, tok) ==
    IF tok = "" THEN FindBarTokensFrom(s, p + 1)
    ELSE <<[a |-> p, b |-> p + Len(tok), tok |-> tok]>> \o FindBarTokensFrom(s, p + Len(tok))

FindBarTokensFrom(s, p) ==
    IF p >= Len(s) THEN <<>> ELSE BarTokensAfter(s, p, BarTokenAt(s, p))

FindBarTokens(s) == FindBarTokensFrom(s, 0)

\* Barline enum members, by name
BarlineFromToken(tok) ==
    IF tok = "||o" THEN "REPEAT_START"
    ELSE IF tok = "o||" THEN "REPEAT_END"
    ELSE IF tok = "||" THEN "DOUBLE"
    ELSE IF tok = "*|" THEN "DOUBLE_ENDING"
    ELSE "SINGLE"

\* ------------------------------------------------------------------------
\* Duration tokens (tab_parser.py: _maybe_parse_duration_at,
\* _parse_duration_token, _duration_token_to_beats)
\* ------------------------------------------------------------------------

\* s.count(ch)
CountChar(s, ch) == Cardinality({k \in 0..(Len(s) - 1) : At(s, k) = ch})

\* s.replace(ch, "")
RECURSIVE RemoveChar(_, _)
RemoveChar(s, ch) ==
    IF Len(s) = 0 THEN ""
    ELSE (IF At(s, 0) = ch THEN "" ELSE At(s, 0)) \o RemoveChar(SliceFrom(s, 1), ch)

\* re.match(r"^([WHQESTXawhqestxa])x(\d+)$", core_nodot) with group 1 a W
MatchesWxn(core) ==
    /\ At(core, 0) \in {"W", "w"}
    /\ At(core, 1) = "x"
    /\ Len(core) > 2
    /\ SpanEnd(core, 2, Digits) = Len(core)

\* lines 614-632, for core_nodot
DurationTokenOf(raw, tie, dotted, core_nodot) ==
    [raw |-> raw,
     symbol |-> At(core_nodot, 0),
     dotted |-> dotted,
     tie |-> tie,
     staccato |-> IsLowerCh(At(core_nodot, 0)),
     grace |-> LowerCh(At(core_nodot, 0)) = "a",
     multibar_rests |-> IF MatchesWxn(core_nodot)
                        THEN ParseInt(core_nodot, 2, Len(core_nodot)) ELSE None]

\* lines 609-611, for core
ParseDurationCore(raw, tie, core) ==
    DurationTokenOf(raw, tie, CountChar(core, "."), RemoveChar(core, "."))

ParseDurationToken(raw) ==
    IF At(raw, 0) = "+" THEN ParseDurationCore(raw, TRUE, SliceFrom(raw, 1))
    ELSE ParseDurationCore(raw, FALSE, raw)

NoToken == ParseDurationToken("")

\* lines 565-566: the token is s[idx:k]
DurationFound(s, idx, k) ==
    [found |-> TRUE, token |-> ParseDurationToken(Slice(s, idx, k)),
     consumed |-> IF k - idx > 1 THEN k - idx ELSE 1]

\* lines 558-563 with the test made on the symbol before the dots
DurationAfterDotsAnyW(s, idx, k) ==
    IF At(s, SpanStart(s, k, {"."}) - 1) \in {"W", "w"} /\ At(s, k) = "x"
       /\ IsDigit(At(s, k + 1))
    THEN DurationFound(s, idx, SpanEnd(s, k + 1, Digits))
    ELSE DurationFound(s, idx, k)

\* lines 558-563, k is the column after the dots
DurationAfterDots(s, idx, k) ==
    IF At(s, k - 1) \in {"W", "w"} /\ At(s, k) = "x" /\ IsDigit(At(s, k + 1))
    THEN DurationFound(s, idx, SpanEnd(s, k + 1, Digits))
    ELSE DurationFound(s, idx, k)

\* lines 553-556, k is the column after the symbol
DurationAfterSymbol(s, idx, k) == DurationAfterDots(s, idx, SpanEnd(s, k, {"."}))

\* _maybe_parse_duration_at(s, idx): found = FALSE models the None result
MaybeParseDurationAt(s, idx) ==
    IF idx >= Len(s) THEN [found |-> FALSE, token |-> NoToken, consumed |-> 0]
    ELSE IF At(s, idx) = "+"
    THEN IF At(s, idx + 1) \in DURATION_SYMBOLS
         THEN DurationAfterSymbol(s, idx, idx + 2)
         ELSE [found |-> FALSE, token |-> NoToken, consumed |-> 0]
    ELSE IF At(s, idx) \in DURATION_SYMBOLS
    THEN DurationAfterSymbol(s, idx, idx + 1)
    ELSE [found |-> FALSE, token |-> NoToken, consumed |-> 0]

\* base_map.get(sym, Fraction(1, 1)) for sym = token.symbol.upper()
BaseBeats(sym) ==
    CASE sym = "W" -> FInt(4)
      [] sym = "H" -> FInt(2)
      [] sym = "Q" -> FInt(1)
      [] sym = "E" -> [n |-> 1, d |-> 2]
      [] sym = "S" -> [n |-> 1, d |-> 4]
      [] sym = "T" -> [n |-> 1, d |-> 8]
      [] sym = "X" -> [n |-> 1, d |-> 16]
      [] sym = "a" -> FInt(0)
      [] OTHER -> FInt(1)

\* lines 587-591 with the two dot factors exchanged
DottedBeatsSwapped(dur, dotted) ==
    IF dotted = 1 THEN Frac(dur.n * 7, dur.d * 4)
    ELSE IF dotted = 2 THEN Frac(dur.n * 3, dur.d * 2)
    ELSE dur

\* lines 587-591: dur + dur/2, or dur + dur/2 + dur/4
DottedBeats(dur, dotted) ==
    IF dotted = 1 THEN Frac(dur.n * 3, dur.d * 2)
    ELSE IF dotted = 2 THEN Frac(dur.n * 7, dur.d * 4)
    ELSE dur

\* lines 593-595
StaccatoBeats(dur, staccato) ==
    IF staccato /\ dur.n > 0 THEN Frac(dur.n, dur.d * 2) ELSE dur

\* "if token.multibar_rests:" is false for None and for 0
MultibarTruthy(token) == token.multibar_rests # None /\ token.multibar_rests # 0

\* lines 600-602: Fraction(4, ts.denominator) raises ZeroDivisionError
MultibarBeats(token, ts) ==
    IF ts.denominator = 0 THEN [raised |-> TRUE, dur |-> FInt(0)]
    ELSE [raised |-> FALSE,
          dur |-> Frac(ts.numerator * 4 * token.multibar_rests, ts.denominator)]

\* _duration_token_to_beats: [raised, dur]
DurationTokenToBeats(token, ts) ==
    IF MultibarTruthy(token) THEN MultibarBeats(token, ts)
    ELSE [raised |-> FALSE,
          dur |-> StaccatoBeats(DottedBeats(BaseBeats(UpperCh(token.symbol)), token.dotted),
                                token.staccato)]

\* ------------------------------------------------------------------------
\* Events (tab_model.py) and note tokens (tab_parser.py: _parse_note_at)
\* ------------------------------------------------------------------------

\* NoteEvent(...): tie is TRUE for TieInfo(True), FALSE for None
NoteEvent(start, duration, si, fret, techniques, tie, grace, ghost) ==
    [kind |-> "note", start |-> start, duration |-> duration, string_index |-> si,
     fret |-> fret, techniques |-> techniques, tie |-> tie, grace |-> grace,
     pitch |-> None, is_ghost |-> ghost]

RestEvent(start, duration) == [kind |-> "rest", start |-> start, duration |-> duration]

ChordEvent(start, duration, notes) ==
    [kind |-> "chord", start |-> start, duration |-> duration, notes |-> notes]

NoNote == [found |-> FALSE, fret |-> None, ghost |-> FALSE, techniques |-> <<>>, consumed |-> 0]

\* _GHOST_RE.match(row, c): the end of "(<digits>)" at c, or -1
GhostEndAt(row, c) ==
    IF /\ At(row, c) = "("
       /\ SpanEnd(row, c + 1, Digits) > c + 1
       /\ At(row, SpanEnd(row, c + 1, Digits)) = ")"
    THEN SpanEnd(row, c + 1, Digits) + 1 ELSE -1

\* lines 685-686: row[col + consumed] == "~"
VibratoAt(row, k) == IF At(row, k) = "~" THEN <<[t |-> "Vibrato"]>> ELSE <<>>

\* lines 668-681: the legato source digits end at e, the destination at e2
LegatoNoteAt(row, col, e, e2) ==
    [found |-> TRUE, fret |-> ParseInt(row, e + 1, e2), ghost |-> FALSE,
     techniques |-> <<[t |-> IF At(row, e) = "h" THEN "HammerOn" ELSE "PullOff",
                       from_fret |-> ParseInt(row, col, e),
                       to_fret |-> ParseInt(row, e + 1, e2)]>> \o VibratoAt(row, e2),
     consumed |-> e2 - col]

\* lines 652-688: the digits at col end at e
DigitNoteAt(row, col, e) ==
    IF At(row, e) \in {"h", "p"} /\ IsDigit(At(row, e + 1))
    THEN LegatoNoteAt(row, col, e, SpanEnd(row, e + 1, Digits))
    ELSE [found |-> TRUE, fret |-> ParseInt(row, col, e), ghost |-> FALSE,
          techniques |-> VibratoAt(row, e), consumed |-> e - col]

\* lines 644-649: the digits after the slide marker end at e
SlideNoteAt(row, col, e) ==
    [found |-> TRUE, fret |-> ParseInt(row, col + 1, e), ghost |-> FALSE,
     techniques |-> <<[t |-> "SlideIn", direction |-> At(row, col)]>>,
     consumed |-> 1 + (e - (col + 1))]

\* lines 690-699: g is GhostEndAt(row, col)
GhostOrMuteAt(row, col, g) ==
    IF g # -1
    THEN [found |-> TRUE, fret |-> ParseInt(row, col + 1, g - 1), ghost |-> TRUE,
          techniques |-> <<>>, consumed |-> g - col]
    ELSE IF LowerCh(At(row, col)) = "x"
    THEN [found |-> TRUE, fret |-> None, ghost |-> FALSE,
          techniques |-> <<[t |-> "Muted"]>>, consumed |-> 1]
    ELSE NoNote

\* _parse_note_at
ParseNoteAt(row, col) ==
    IF col >= Len(row) THEN NoNote
    ELSE IF At(row, col) \in {"/", "\\"} /\ IsDigit(At(row, col + 1))
    THEN SlideNoteAt(row, col, SpanEnd(row, col + 1, Digits))
    ELSE IF IsDigit(At(row, col)) THEN DigitNoteAt(row, col, SpanEnd(row, col, Digits))
    ELSE GhostOrMuteAt(row, col, GhostEndAt(row, col))

\* ------------------------------------------------------------------------
\* Pitch assignment (tab_parser.py: _assign_pitches, _tuning_to_open_midi)
\* ------------------------------------------------------------------------

\* _NOTE_TO_SEMITONE.get(key, _NOTE_TO_SEMITONE["E"])
NoteToSemitone(key) ==
    CASE key = "C" -> 0 [] key = "C#" -> 1 [] key = "DB" -> 1 [] key = "D" -> 2
      [] key = "D#" -> 3 [] key = "EB" -> 3 [] key = "E" -> 4 [] key = "F" -> 5
      [] key = "F#" -> 6 [] key = "GB" -> 6 [] key = "G" -> 7 [] key = "G#" -> 8
      [] key = "AB" -> 8 [] key = "A" -> 9 [] key = "A#" -> 10 [] key = "BB" -> 10
      [] key = "B" -> 11 [] OTHER -> 4

\* str.upper()
RECURSIVE UpperStr(_)
UpperStr(s) == IF Len(s) = 0 THEN "" ELSE UpperCh(At(s, 0)) \o UpperStr(SliceFrom(s, 1))

\* default_octaves[i] (i is 0-based)
DefaultOctave(n, i) == IF n = 6 THEN <<4, 3, 3, 3, 2, 2>>[i + 1] ELSE 4

\* lines 756-761: the lookup key of a label
SemitoneKey(name) ==
    IF Len(name) >= 2 /\ At(name, 1) \in {"#", "B"} THEN Slice(name, 0, 2)
    ELSE IF name # "" THEN At(name, 0) ELSE "E"

TuningToOpenMidi(labels) ==
    [k \in 1..Len(labels) |->
        12 * (DefaultOctave(Len(labels), k - 1) + 1)
        + NoteToSemitone(SemitoneKey(UpperStr(Strip(labels[k]))))]

\* lines 706-710 and 713-717
AssignNotePitch(ne, open_pitches) ==
    IF ne.fret = None THEN [ne EXCEPT !.pitch = None]
    ELSE IF 0 <= ne.string_index /\ ne.string_index < Len(open_pitches)
    THEN [ne EXCEPT !.pitch = open_pitches[ne.string_index + 1] + ne.fret]
    ELSE ne

\* lines 704-717
AssignEventPitch(ev, open_pitches) ==
    IF ev.kind = "note" THEN AssignNotePitch(ev, open_pitches)
    ELSE IF ev.kind = "chord"
    THEN [ev EXCEPT !.notes = [j \in DOMAIN ev.notes |->
                                  AssignNotePitch(ev.notes[j], open_pitches)]]
    ELSE ev

AssignPitchesWith(events, open_pitches) ==
    [k \in DOMAIN events |-> AssignEventPitch(events[k], open_pitches)]

AssignPitches(events, labels) == AssignPitchesWith(events, TuningToOpenMidi(labels))

\* ------------------------------------------------------------------------
\* Event extraction (tab_parser.py: _parse_measure_events)
\* ------------------------------------------------------------------------

\* lines 439-444, 452-458, 463-469: the NoteEvent of unknown-rhythm mode
ColumnNote(c, si, fret, techniques, ghost) ==
    NoteEvent(FInt(c), FInt(1), si, fret, techniques, FALSE, FALSE, ghost)

\* unknown-rhythm mode, the scan of one row from column c (lines 432-473);
\* e is the end of the digits at c, g is GhostEndAt(row, c)
RECURSIVE ScanRow(_, _, _)
RECURSIVE ScanToken(_, _, _, _, _)
ScanToken(row, si, c, e, g) ==
    IF IsDigit(At(row, c))
    THEN <<ColumnNote(c, si, ParseInt(row, c, e), <<>>, FALSE)>> \o ScanRow(row, si, e)
    ELSE IF g # -1
    THEN <<ColumnNote(c, si, ParseInt(row, c + 1, g - 1), <<>>, TRUE)>> \o ScanRow(row, si, g)
    ELSE IF LowerCh(At(row, c)) = "x"
    THEN <<ColumnNote(c, si, None, <<[t |-> "Muted"]>>, FALSE)>> \o ScanRow(row, si, c + 1)
    ELSE ScanRow(row, si, c + 1)

ScanRow(row, si, c) ==
    IF c >= Len(row) THEN <<>>
    ELSE ScanToken(row, si, c, SpanEnd(row, c, Digits), GhostEndAt(row, c))

\* the events of all rows in row order, before sorting
RECURSIVE ScanRows(_, _)
ScanRows(rows, si) ==
    IF si >= Len(rows) THEN <<>>
    ELSE ScanRow(rows[si + 1], si, 0) \o ScanRows(rows, si + 1)

\* the sort key string_index alone
KeyLeByString(x, y) == x.string_index <= y.string_index

\* the sort key (e.start, e.string_index), compared as Python compares tuples
KeyLe(x, y) ==
    \/ FLt(x.start, y.start)
    \/ x.start = y.start /\ x.string_index <= y.string_index

\* insertion of e after the last element whose key is <= e's (a stable sort)
RECURSIVE InsertSorted(_, _)
InsertSorted(sorted, e) ==
    IF Len(sorted) = 0 THEN <<e>>
    ELSE IF KeyLe(sorted[Len(sorted)], e) THEN Append(sorted, e)
    ELSE Append(InsertSorted(SubSeq(sorted, 1, Len(sorted) - 1), e), sorted[Len(sorted)])

\* events.sort(key=lambda e: (e.start, e.string_index))
RECURSIVE SortEvents(_)
SortEvents(evs) ==
    IF Len(evs) = 0 THEN <<>>
    ELSE InsertSorted(SortEvents(SubSeq(evs, 1, Len(evs) - 1)), evs[Len(evs)])

UnknownRhythmEvents(rows) == SortEvents(ScanRows(rows, 0))

\* lines 500-512: the NoteEvent of row si for the note n found at the column
NoteAtCol(n, si, time, dur, token) ==
    IF n.found
    THEN <<NoteEvent(time, dur, si, n.fret, n.techniques, token.tie, token.grace, n.ghost)>>
    ELSE <<>>

\* lines 497-512: the notes found at col, in row order
RECURSIVE NotesAtCol(_, _, _, _, _, _)
NotesAtCol(rows, si, col, time, dur, token) ==
    IF si >= Len(rows) THEN <<>>
    ELSE NoteAtCol(ParseNoteAt(rows[si + 1], col), si, time, dur, token)
         \o NotesAtCol(rows, si + 1, col, time, dur, token)

\* lines 514-521 with a chord reduced to its first note
EventForFirstNote(notes, time, dur) ==
    IF Len(notes) = 0 THEN RestEvent(time, dur) ELSE notes[1]

\* lines 514-521
EventFor(notes, time, dur) ==
    IF Len(notes) = 0 THEN RestEvent(time, dur)
    ELSE IF Len(notes) = 1 THEN notes[1]
    ELSE ChordEvent(time, dur, notes)

\* the loop state of the duration-driven walk: time, col, measure.events and
\* the locals token and dur_beats of the last token
DurStart ==
    [time |-> FInt(0), col |-> 0, events |-> <<>>, raised |-> FALSE,
     token |-> NoToken, dur_beats |-> FInt(0)]

\* lines 496-524 with a cursor that moves only when a note was found
DurStepTokenNotesOnly(st, rows, parsed, dur) ==
    [time |-> IF Len(NotesAtCol(rows, 0, st.col, st.time, dur, parsed.token)) = 0
              THEN st.time ELSE FAdd(st.time, dur),
     col |-> st.col + parsed.consumed,
     events |-> Append(st.events,
                       EventFor(NotesAtCol(rows, 0, st.col, st.time, dur, parsed.token),
                                st.time, dur)),
     raised |-> FALSE,
     token |-> parsed.token,
     dur_beats |-> dur]

\* lines 496-524 for a token whose beats did not raise
DurStepToken(st, rows, parsed, dur) ==
    [time |-> FAdd(st.time, dur),
     col |-> st.col + parsed.consumed,
     events |-> Append(st.events,
                       EventFor(NotesAtCol(rows, 0, st.col, st.time, dur, parsed.token),
                                st.time, dur)),
     raised |-> FALSE,
     token |-> parsed.token,
     dur_beats |-> dur]

\* lines 491-494
DurStepBeats(st, rows, parsed, beats) ==
    IF beats.raised THEN [st EXCEPT !.raised = TRUE, !.token = parsed.token]
    ELSE DurStepToken(st, rows, parsed, beats.dur)

\* lines 486-489
DurStepParsed(st, rows, ts, parsed) ==
    IF ~parsed.found THEN [st EXCEPT !.col = st.col + 1]
    ELSE DurStepBeats(st, rows, parsed, DurationTokenToBeats(parsed.token, ts))

\* one iteration of "while col < len(dur_slice)" (lines 485-524)
DurStep(st, rows, dur_slice, ts) ==
    DurStepParsed(st, rows, ts, MaybeParseDurationAt(dur_slice, st.col))

RECURSIVE DurLoop(_, _, _, _)
DurLoop(st, rows, dur_slice, ts) ==
    IF st.raised \/ st.col >= Len(dur_slice) THEN st
    ELSE DurLoop(DurStep(st, rows, dur_slice, ts), rows, dur_slice, ts)

\* lines 526-527 after the walk
DurationDrivenEvents(st, labels) ==
    [raised |-> st.raised, events |-> AssignPitches(st.events, labels)]

\* _parse_measure_events: has_dur is "dur_slice is not None"
ParseMeasureEvents(rows, has_dur, dur_slice, ts, labels) ==
    IF ~has_dur
    THEN [raised |-> FALSE, events |-> AssignPitches(UnknownRhythmEvents(rows), labels)]
    ELSE DurationDrivenEvents(DurLoop(DurStart, rows, dur_slice, ts), labels)

\* ------------------------------------------------------------------------
\* Measure segmenter (tab_parser.py: _parse_system_block)
\* ------------------------------------------------------------------------

\* duration_line: Optional[str] = None (a detected line is never empty)
NoLine == ""

\* lines 279-289: the label and the content of one string line, m its
\* _STRING_LABELED_RE match
LabelOfMatch(m) == IF m.found THEN UpperStr(m.label) ELSE "?"

LabelOf(ln) == LabelOfMatch(LabeledMatch(ln))

ContentOfMatch(ln, m) == IF m.found THEN SliceFrom(ln, m.end - 1) ELSE LStrip(ln)

ContentOf(ln) == ContentOfMatch(ln, LabeledMatch(ln))

\* lines 293-294
DefaultLabels(labels) ==
    IF Len(labels) = 6 /\ \A k \in DOMAIN labels : labels[k] = "?"
    THEN <<"E", "B", "G", "D", "A", "E">> ELSE labels

\* max(len(c) for c in contents)
MaxLength(contents) ==
    CHOOSE w \in {Len(contents[k]) : k \in DOMAIN contents} :
        \A k \in DOMAIN contents : Len(contents[k]) <= w

\* lines 301-305: the first pre-line holding a duration symbol, padded
RECURSIVE FindDurationLine(_, _, _)
FindDurationLine(pre_lines, k, width) ==
    IF k > Len(pre_lines) THEN NoLine
    ELSE IF AnyCharIn(pre_lines[k].text, DURATION_SYMBOLS)
    THEN LJust(pre_lines[k].text, width)
    ELSE FindDurationLine(pre_lines, k + 1, width)

\* re.finditer(r"PM[-\s]*\|", ln) from position p: AnnotationSpan records;
\* e is the end of the run of dashes and spaces after the two letters at p
RECURSIVE PmSpansFrom(_, _)
RECURSIVE PmSpanAt(_, _, _)
PmSpanAt(ln, p, e) ==
    IF Slice(ln, p, p + 2) = "PM" /\ At(ln, e) = "|"
    THEN <<[type |-> "PM", start_col |-> p, end_col |-> e]>> \o PmSpansFrom(ln, e + 1)
    ELSE PmSpansFrom(ln, p + 1)

PmSpansFrom(ln, p) ==
    IF p >= Len(ln) THEN <<>>
    ELSE PmSpanAt(ln, p, SpanEnd(ln, p + 2, {"-"} \cup Whitespace))

\* _TRIPLET_RE.finditer(ln) from position p: TupletSpan records; e is the
\* end of the match at p, or -1
RECURSIVE TripletSpansFrom(_, _)
RECURSIVE TripletSpanAt(_, _, _)
TripletSpanAt(ln, p, e) ==
    IF e # -1
    THEN <<[actual |-> 3, normal |-> 2, start_col |-> p, end_col |-> e - 1]>>
         \o TripletSpansFrom(ln, e)
    ELSE TripletSpansFrom(ln, p + 1)

TripletSpansFrom(ln, p) ==
    IF p >= Len(ln) THEN <<>> ELSE TripletSpanAt(ln, p, TripletEndAt(ln, p))

\* lines 308-317: the PM spans of the pre-lines from pre-line k on
RECURSIVE AnnotationsOf(_, _)
AnnotationsOf(pre_lines, k) ==
    IF k > Len(pre_lines) THEN <<>>
    ELSE (IF Contains(pre_lines[k].text, "PM") THEN PmSpansFrom(pre_lines[k].text, 0)
          ELSE <<>>)
         \o AnnotationsOf(pre_lines, k + 1)

\* lines 318-327: the triplet spans of the pre-lines from pre-line k on
RECURSIVE TupletsOf(_, _)
TupletsOf(pre_lines, k) ==
    IF k > Len(pre_lines) THEN <<>>
    ELSE TripletSpansFrom(pre_lines[k].text, 0) \o TupletsOf(pre_lines, k + 1)

\* line 335
SyntheticBars(width) ==
    <<[a |-> 0, b |-> 1, tok |-> "|"], [a |-> width - 1, b |-> width, tok |-> "|"]>>

\* lines 333-335 with two-or-more replaced by one-or-more
BarMatchesOneSuffices(found, width) ==
    IF Len(found) < 1 THEN SyntheticBars(width) ELSE found

\* lines 333-335: found is list(_find_bar_tokens(ref))
BarMatchesOf(found, width) ==
    IF Len(found) < 2 THEN SyntheticBars(width) ELSE found

\* lines 331-335: the bar tokens of the reference line, or two synthetic ones
BarMatches(ref, width) == BarMatchesOf(FindBarTokens(ref), width)

Positions(tokens) == [k \in DOMAIN tokens |-> tokens[k].a]

InconsistentMessage == "Inconsistent barline positions across strings (best-effort parsing)."

\* a check of lines 341-347 that skips the comparison with ref_positions
BarWarningAlways(other_positions, ref_positions, line_no) ==
    IF other_positions # <<>>
    THEN <<[line_no |-> line_no, message |-> InconsistentMessage]>>
    ELSE <<>>

\* lines 341-347: other_positions are the bar positions of string line si
BarWarning(other_positions, ref_positions, line_no) ==
    IF other_positions # <<>> /\ other_positions # ref_positions
    THEN <<[line_no |-> line_no, message |-> InconsistentMessage]>>
    ELSE <<>>

\* lines 338-347: the warnings of the string lines from line si (1-based) on
RECURSIVE BarWarnings(_, _, _, _)
BarWarnings(contents, string_lines, ref_positions, si) ==
    IF si > Len(contents) THEN <<>>
    ELSE BarWarning(Positions(FindBarTokens(contents[si])), ref_positions,
                    string_lines[si].no)
         \o BarWarnings(contents, string_lines, ref_positions, si + 1)

\* lines 361-377: the Measure once its events are parsed
MeasureOf(left, right, effective_ts, raw_columns, parsed) ==
    [raised |-> parsed.raised,
     measure |-> [barline_left |-> BarlineFromToken(left.tok),
                  barline_right |-> BarlineFromToken(right.tok),
                  time_signature |-> effective_ts,
                  events |-> parsed.events,
                  raw_columns |-> raw_columns]]

\* lines 355-377 for the slices and the duration slice of one measure
MeasureFromSlices(left, right, measure_slices, has_duration, duration_slice, labels, effective_ts) ==
    MeasureOf(left, right, effective_ts, Len(measure_slices[1]),
              ParseMeasureEvents(measure_slices, has_duration, duration_slice,
                                 effective_ts, labels))

\* lines 351-378: the measure between the bar tokens left and right
MeasureBetween(left, right, contents, duration_line, labels, effective_ts) ==
    MeasureFromSlices(left, right,
                      [k \in DOMAIN contents |-> Slice(contents[k], left.b, right.a)],
                      duration_line # NoLine,
                      Slice(duration_line, left.b, right.a),
                      labels, effective_ts)

\* lines 380-388: the result; raised models an exception that escaped
\* _parse_measure_events
SystemResult(string_lines, pre_lines, labels, duration_line, warns, built) ==
    [raised |-> \E j \in DOMAIN built : built[j].raised,
     warnings |-> warns,
     system |-> [tuning |-> labels,
                 measures |-> [j \in DOMAIN built |-> built[j].measure],
                 annotations |-> AnnotationsOf(pre_lines, 1),
                 tuplets |-> TupletsOf(pre_lines, 1),
                 duration_line |-> duration_line,
                 raw_lines |-> [k \in DOMAIN pre_lines |-> pre_lines[k].text]
                               \o [k \in DOMAIN string_lines |-> string_lines[k].text]]]

\* lines 337-378
SystemSegmented(string_lines, pre_lines, labels, contents, duration_line, bar_matches, effective_ts) ==
    SystemResult(string_lines, pre_lines, labels, duration_line,
                 BarWarnings(contents, string_lines, Positions(bar_matches), 2),
                 [j \in 1..(Len(bar_matches) - 1) |->
                     MeasureBetween(bar_matches[j], bar_matches[j + 1], contents,
                                    duration_line, labels, effective_ts)])

\* lines 330-335
SystemPadded(string_lines, pre_lines, labels, contents, duration_line, width, effective_ts) ==
    SystemSegmented(string_lines, pre_lines, labels, contents, duration_line,
                    BarMatches(contents[1], width), effective_ts)

\* lines 296-305
SystemWithWidth(string_lines, pre_lines, labels, raw, width, effective_ts) ==
    SystemPadded(string_lines, pre_lines, labels,
                 [k \in DOMAIN raw |-> LJust(raw[k], width)],
                 FindDurationLine(pre_lines, 1, width), width, effective_ts)

\* lines 276-297
SystemOfLines(string_lines, pre_lines, raw, effective_ts) ==
    SystemWithWidth(string_lines, pre_lines,
                    DefaultLabels([k \in DOMAIN string_lines |->
                                      LabelOf(string_lines[k].text)]),
                    raw, MaxLength(raw), effective_ts)

\* lines 265-289
SystemOfStringLines(string_lines, pre_lines, effective_ts) ==
    SystemOfLines(string_lines, pre_lines,
                  [k \in DOMAIN string_lines |-> ContentOf(string_lines[k].text)],
                  effective_ts)

TextIsStringLine(e) == IsStringLine(e.text)

TextIsPreLine(e) == ~IsStringLine(e.text)

\* _parse_system_block for a block with at least one string line
ParseSystemBlock(block, effective_ts) ==
    SystemOfStringLines(SelectSeq(block, TextIsStringLine),
                        SelectSeq(block, TextIsPreLine), effective_ts)

\* ------------------------------------------------------------------------
\* Inverse renderer (tab_render_model.py)
\* ------------------------------------------------------------------------

\* Section.time_signature = None
NoTimeSig == [numerator |-> None, denominator |-> None]

\* the threshold of _has_rhythm_mode
RhythmStartLimit == 64

\* the fallback total of _make_time_to_col_mapper, in beats
FallbackTotalBeats == 4

\* _bar_token: str(b.value)
BarToken(b) ==
    CASE b = "REPEAT_START" -> "||o"
      [] b = "REPEAT_END" -> "o||"
      [] b = "DOUBLE" -> "||"
      [] b = "DOUBLE_ENDING" -> "*|"
      [] b = "SINGLE" -> "|"

\* _place_token: overlay token on row from col, dropping what falls outside
RECURSIVE PlaceToken(_, _, _)
PlaceToken(row, col, token) ==
    IF Len(token) = 0 THEN row
    ELSE LET placed == IF 0 <= col /\ col < Len(row)
                       THEN Slice(row, 0, col) \o At(token, 0) \o SliceFrom(row, col + 1)
                       ELSE row
         IN  PlaceToken(placed, col + 1, SliceFrom(token, 1))

\* the token _place_note writes for a note
NoteText(ne) ==
    IF ne.fret = None THEN "x"
    ELSE IF ne.is_ghost THEN "(" \o IntToStr(ne.fret) \o ")"
    ELSE IntToStr(ne.fret)

\* _place_note on a grid of rows
PlaceNote(grid, string_index, col, ne) ==
    IF string_index < 0 \/ string_index >= Len(grid) THEN grid
    ELSE IF col < 0 \/ col >= Len(grid[string_index + 1]) THEN grid
    ELSE [grid EXCEPT ![string_index + 1] = PlaceToken(@, col, NoteText(ne))]

\* _infer_measure_width
InferMeasureWidth(events) ==
    LET n == IF 8 > Len(events) * 3 THEN 8 ELSE Len(events) * 3
        m == IF n > 16 THEN n ELSE 16
    IN  IF m < 96 THEN m ELSE 96

\* a mode test that takes every measure with events for rhythm mode
HasRhythmModeAnyStart(events) == Len(events) > 0

\* _has_rhythm_mode (every start of a parsed score is a Fraction)
HasRhythmMode(events) ==
    /\ Len(events) > 0
    /\ \A k \in DOMAIN events : FLt(events[k].start, FInt(RhythmStartLimit))

\* sum((ev.duration for ev in measure.events), Fraction(0, 1))
RECURSIVE SumDurations(_, _)
SumDurations(events, k) ==
    IF k > Len(events) THEN FInt(0)
    ELSE FAdd(events[k].duration, SumDurations(events, k + 1))

\* round(x) for an exact x >= 0: to nearest, ties to even
RoundHalfEven(x) ==
    LET fl == x.n \div x.d
        rem == x.n - fl * x.d
    IN  IF 2 * rem < x.d THEN fl
        ELSE IF 2 * rem > x.d THEN fl + 1
        ELSE IF fl % 2 = 0 THEN fl ELSE fl + 1

\* lines 183-185: total is the sum of the durations
TotalBeats(total) == IF FLe(total, FInt(0)) THEN FInt(FallbackTotalBeats) ELSE total

\* _make_time_to_col_mapper: the closure, as the values it captures
MakeTimeToColMapper(events, width) ==
    IF ~HasRhythmMode(events)
    THEN [rhythm |-> FALSE, total |-> FInt(0), width |-> width]
    ELSE [rhythm |-> TRUE, total |-> TotalBeats(SumDurations(events, 1)), width |-> width]

\* max(0, min(width - 1, c))
ClampCol(c, width) ==
    IF c > width - 1 THEN (IF width - 1 > 0 THEN width - 1 ELSE 0)
    ELSE IF c > 0 THEN c ELSE 0

\* the mapper applied to t: lines 178-179 and 187-191
TimeToCol(mapper, t) ==
    IF ~mapper.rhythm THEN FFloor(t)
    ELSE ClampCol(RoundHalfEven(FMul(FMul(t, Frac(mapper.total.d, mapper.total.n)),
                                     FInt(mapper.width - 1))),
                  mapper.width)

\* _duration_symbol_for
DurationSymbolFor(d) ==
    CASE d = Frac(4, 1) -> "W"
      [] d = Frac(2, 1) -> "H"
      [] d = Frac(1, 1) -> "Q"
      [] d = Frac(1, 2) -> "E"
      [] d = Frac(1, 4) -> "S"
      [] d = Frac(1, 8) -> "T"
      [] d = Frac(1, 16) -> "X"
      [] OTHER -> "Q"

\* the notes of a chord placed one after another (lines 116-117)
RECURSIVE PlaceNotes(_, _, _, _)
PlaceNotes(grid, notes, k, c) ==
    IF k > Len(notes) THEN grid
    ELSE PlaceNotes(PlaceNote(grid, notes[k].string_index, c, notes[k]), notes, k + 1, c)

\* lines 105-119 for one event at column c; r = [grid, dur, has_dur]
PlaceEvent(r, ev, c) ==
    [grid |-> IF ev.kind = "note" THEN PlaceNote(r.grid, ev.string_index, c, ev)
              ELSE IF ev.kind = "chord" THEN PlaceNotes(r.grid, ev.notes, 1, c)
              ELSE r.grid,
     dur |-> IF r.has_dur THEN PlaceToken(r.dur, c, DurationSymbolFor(ev.duration))
             ELSE r.dur,
     has_dur |-> r.has_dur]

\* the loop of _render_measure over measure.events, from event k
RECURSIVE PlaceEvents(_, _, _, _)
PlaceEvents(r, events, k, mapper) ==
    IF k > Len(events) THEN r
    ELSE PlaceEvents(PlaceEvent(r, events[k], TimeToCol(mapper, events[k].start)),
                     events, k + 1, mapper)

\* "measure.raw_columns or _infer_measure_width(measure)"
MeasureWidth(measure) ==
    IF measure.raw_columns # None /\ measure.raw_columns # 0
    THEN measure.raw_columns ELSE InferMeasureWidth(measure.events)

\* lines 93-121: has_dur is "duration_line is not None"
RenderMeasureOfWidth(events, n_strings, width) ==
    PlaceEvents([grid |-> [k \in 1..n_strings |-> Repeat("-", width)],
                 dur |-> Repeat(" ", width),
                 has_dur |-> HasRhythmMode(events)],
                events, 1, MakeTimeToColMapper(events, width))

\* _render_measure: [grid, dur, has_dur]
RenderMeasure(measure, n_strings) ==
    RenderMeasureOfWidth(measure.events, n_strings, MeasureWidth(measure))

\* lines 63-73 for one measure: left and right are its bar tokens, rm its
\* rendering
AppendMeasure(acc, left, right, rm, present) ==
    [strings |-> [si \in DOMAIN acc.strings |->
                     acc.strings[si] \o left \o rm.grid[si] \o right],
     dur |-> IF present
             THEN acc.dur \o Repeat(" ", Len(left))
                  \o (IF rm.has_dur THEN rm.dur ELSE Repeat(" ", Len(rm.grid[1])))
                  \o Repeat(" ", Len(right))
             ELSE acc.dur]

\* lines 60-73: the concatenation of the measures from measure k on
RECURSIVE ConcatMeasures(_, _, _, _, _)
ConcatMeasures(acc, measures, rendered, k, present) ==
    IF k > Len(measures) THEN acc
    ELSE ConcatMeasures(AppendMeasure(acc, BarToken(measures[k].barline_left),
                                      BarToken(measures[k].barline_right),
                                      rendered[k], present),
                        measures, rendered, k + 1, present)

\* the indentation _render_system puts before the duration line
DurationLineIndent == 3

\* lines 75-83: cat holds the concatenated string lines and duration line
SystemLines(labels, present, cat) ==
    (IF present THEN <<Repeat(" ", DurationLineIndent) \o RStrip(cat.dur)>> ELSE <<>>)
    \o [si \in DOMAIN labels |-> labels[si] \o cat.strings[si]]

\* lines 57-73
RenderSystemPresent(labels, measures, rendered, present) ==
    SystemLines(labels, present,
                ConcatMeasures([strings |-> [si \in DOMAIN labels |-> ""], dur |-> ""],
                               measures, rendered, 1, present))

\* lines 50-55
RenderSystemMeasures(labels, measures, rendered) ==
    RenderSystemPresent(labels, measures, rendered,
                        \E k \in DOMAIN rendered : rendered[k].has_dur)

\* _render_system
RenderSystem(system) ==
    RenderSystemMeasures(system.tuning, system.measures,
                         [k \in DOMAIN system.measures |->
                             RenderMeasure(system.measures[k], Len(system.tuning))])

RECURSIVE RenderSystems(_, _)
RenderSystems(systems, k) ==
    IF k > Len(systems) THEN <<>>
    ELSE RenderSystem(systems[k]) \o <<"">> \o RenderSystems(systems, k + 1)

RECURSIVE RenderSections(_, _)
RenderSections(sections, k) ==
    IF k > Len(sections) THEN <<>>
    ELSE LET sec == sections[k]
         IN  (IF sec.timestamp # NoText THEN <<sec.timestamp>> ELSE <<>>)
             \o (IF sec.time_signature # NoTimeSig
                 THEN <<IntToStr(sec.time_signature.numerator) \o "/"
                        \o IntToStr(sec.time_signature.denominator)>>
                 ELSE <<>>)
             \o RenderSystems(sec.systems, 1)
             \o RenderSections(sections, k + 1)

\* while out and out[-1] == "": out.pop()
RECURSIVE DropTrailingBlank(_)
DropTrailingBlank(out) ==
    IF Len(out) > 0 /\ out[Len(out)] = ""
    THEN DropTrailingBlank(SubSeq(out, 1, Len(out) - 1)) ELSE out

\* render_tab_from_model, as the lines of the text it returns
RenderTabFromModel(sc) ==
    DropTrailingBlank(
        <<"title: " \o sc.title, "artist: " \o sc.artist>>
        \o (IF sc.capo # None THEN <<"capo: " \o IntToStr(sc.capo)>> ELSE <<>>)
        \o <<"">>
        \o RenderSections(sc.sections, 1))

\* ------------------------------------------------------------------------
\* Raw-line renderer (tab_render.py: render_tab)
\* ------------------------------------------------------------------------

\* lines 29-31 for one system: its raw lines, rstripped, and a blank line
RawSystemLines(system) ==
    [k \in DOMAIN system.raw_lines |-> RStrip(system.raw_lines[k])] \o <<"">>

RECURSIVE RawSystems(_, _)
RawSystems(systems, k) ==
    IF k > Len(systems) THEN <<>>
    ELSE RawSystemLines(systems[k]) \o RawSystems(systems, k + 1)

\* lines 21-31
RECURSIVE RawSections(_, _)
RawSections(sections, k) ==
    IF k > Len(sections) THEN <<>>
    ELSE (IF sections[k].timestamp # NoText THEN <<sections[k].timestamp>> ELSE <<>>)
         \o (IF sections[k].time_signature # NoTimeSig
             THEN <<IntToStr(sections[k].time_signature.numerator) \o "/"
                    \o IntToStr(sections[k].time_signature.denominator)>>
             ELSE <<>>)
         \o RawSystems(sections[k].systems, 1)
         \o RawSections(sections, k + 1)

\* render_tab, as the lines of the text it returns
RenderTab(sc) ==
    DropTrailingBlank(
        <<"title: " \o sc.title, "artist: " \o sc.artist>>
        \o (IF sc.capo # None THEN <<"capo: " \o IntToStr(sc.capo)>> ELSE <<>>)
        \o <<"">>
        \o RawSections(sc.sections, 1))

\* ------------------------------------------------------------------------
\* State
\* ------------------------------------------------------------------------

VARIABLES
    \* parse_tab / render_tab_from_model on a document
    text,             \* lines = text.splitlines() of the text being parsed
    pc,               \* "idle" | "header" | "body" | "done" | "failed"
    pass,             \* 1: the given text; 2, 3: the text that
                      \* render_tab_from_model, render_tab made of pass 1
    score,            \* title, artist, capo of the TabScore
    body,             \* lines[idx:], the argument of _parse_sections
    i,                \* the line index of _parse_sections
    sections,         \* sections appended so far
    current_section,
    current_ts,
    warnings,
    error,            \* the exception that escaped parse_tab, or "none"
    first,            \* the TabScore of pass 1, kept for the round trip
    \* _parse_measure_events on one measure
    string_slices,
    dur_slice,
    has_dur,          \* dur_slice is not None
    m_ts,             \* measure.time_signature
    walk,             \* the loop state of the duration-driven walk
    events,           \* measure.events when _parse_measure_events has returned
    mpc,              \* "idle" | "start" | "walk" | "done" | "raised"
    \* _find_bar_tokens and _parse_system_block on one block
    block,
    bar_tokens,       \* list(_find_bar_tokens(ref))
    system_out,       \* the (TabSystem, warnings) returned
    spc,              \* "idle" | "start" | "scanned" | "parsed"
    \* to_midi_events on one score
    midi_score,       \* score.sections
    tempo_bpm,
    t_abs_beats,
    midi_events,      \* the list events; the returned list once xpc = "returned"
    measure_no,       \* measures of the score walked so far, in document order
    xpc,              \* "idle" | "loop" | "returned"
    \* _render_measure on one measure
    r_measure,        \* the events and raw_columns of the measure
    r_strings,        \* n_strings
    r_out,            \* grid, duration_line (dur, has_dur: it is not None)
    r_k,              \* events of the measure placed so far
    rpc,              \* "idle" | "start" | "place" | "returned"
    \* _collect_system_block on a list of lines
    c_lines,
    c_start,          \* the 0-based index start
    c_out,            \* the (block, consumed) returned
    cpc               \* "idle" | "start" | "returned"

docVars == <<text, pc, pass, score, body, i, sections, current_section, current_ts,
             warnings, error, first>>
measVars == <<string_slices, dur_slice, has_dur, m_ts, walk, events, mpc>>
sysVars == <<block, bar_tokens, system_out, spc>>
midiVars == <<midi_score, tempo_bpm, t_abs_beats, midi_events, measure_no, xpc>>
renderVars == <<r_measure, r_strings, r_out, r_k, rpc>>
collectVars == <<c_lines, c_start, c_out, cpc>>
vars == <<docVars, measVars, sysVars, midiVars, renderVars, collectVars>>

DefaultTimeSig == [numerator |-> 4, denominator |-> 4]
EmptySection == [timestamp |-> NoText, time_signature |-> NoTimeSig, systems |-> <<>>]
NoScore == [title |-> NoText, artist |-> NoText, capo |-> None]
NoSystem == [tuning |-> <<>>, measures |-> <<>>, annotations |-> <<>>, tuplets |-> <<>>,
             duration_line |-> NoLine, raw_lines |-> <<>>]

DocIdle ==
    /\ text = <<>> /\ pc = "idle" /\ pass = 1 /\ score = NoScore /\ body = <<>>
    /\ i = 0 /\ sections = <<>> /\ current_section = EmptySection
    /\ current_ts = DefaultTimeSig /\ warnings = <<>> /\ error = "none"
    /\ first = [sections |-> <<>>, warnings |-> <<>>]

MeasIdle ==
    /\ string_slices = <<>> /\ dur_slice = "" /\ has_dur = FALSE
    /\ m_ts = DefaultTimeSig /\ walk = DurStart /\ events = <<>> /\ mpc = "idle"

SysIdle ==
    /\ block = <<>> /\ bar_tokens = <<>>
    /\ system_out = [system |-> NoSystem, warnings |-> <<>>] /\ spc = "idle"

MidiIdle ==
    /\ midi_score = <<>> /\ tempo_bpm = 120 /\ t_abs_beats = FInt(0)
    /\ midi_events = <<>> /\ measure_no = 0 /\ xpc = "idle"

RenderIdle ==
    /\ r_measure = [events |-> <<>>, raw_columns |-> None] /\ r_strings = 0
    /\ r_out = [grid |-> <<>>, dur |-> "", has_dur |-> FALSE] /\ r_k = 0 /\ rpc = "idle"

CollectIdle ==
    /\ c_lines = <<>> /\ c_start = 0
    /\ c_out = [block |-> <<>>, consumed |-> 0] /\ cpc = "idle"

\* ------------------------------------------------------------------------
\* parse_tab, _parse_header, _parse_sections
\* ------------------------------------------------------------------------

\* parse_tab lines 40-41 for the header h that _parse_header returned
HeaderReturned(h) ==
    /\ ~h.raised
    /\ score' = [title |-> h.title, artist |-> h.artist, capo |-> h.capo]
    /\ body' = SubSeq(text, h.idx + 1, Len(text))

\* parse_tab line 40 when _parse_header returns
ParseHeaderOk ==
    /\ pc = "header"
    /\ HeaderReturned(ParseHeader(text))
    /\ pc' = "body"
    /\ i' = 0
    /\ sections' = <<>>
    /\ current_section' = EmptySection
    /\ current_ts' = DefaultTimeSig
    /\ warnings' = <<>>
    /\ UNCHANGED <<text, pass, error, first, measVars, sysVars, midiVars, renderVars, collectVars>>

\* parse_tab line 40 when _parse_header raises TabParseError
ParseHeaderFail ==
    /\ pc = "header"
    /\ ParseHeader(text).raised
    /\ pc' = "failed"
    /\ error' = "TabParseError"
    /\ UNCHANGED <<text, pass, score, body, i, sections, current_section, current_ts,
                   warnings, first, measVars, sysVars, midiVars, renderVars, collectVars>>

\* a flush_section that appends the current section even without systems
FlushSectionAlways(secs, cur) == Append(secs, cur)

\* flush_section: the sections list afterwards
FlushSection(secs, cur) == IF cur.systems # <<>> THEN Append(secs, cur) ELSE secs

InBody == pc = "body" /\ i < Len(body)

\* lines 112-114
SkipBlank ==
    /\ InBody
    /\ Strip(body[i + 1]) = ""
    /\ i' = i + 1
    /\ UNCHANGED <<text, pc, pass, score, body, sections, current_section, current_ts,
                   warnings, error, first, measVars, sysVars, midiVars, renderVars, collectVars>>

\* lines 117-124
TimestampLine ==
    /\ InBody
    /\ Strip(body[i + 1]) # ""
    /\ IsTimestamp(body[i + 1])
    /\ sections' = FlushSection(sections, current_section)
    /\ current_section' = [EmptySection EXCEPT !.timestamp = TimestampOf(body[i + 1])]
    /\ i' = i + 1
    /\ UNCHANGED <<text, pc, pass, score, body, current_ts, warnings, error, first,
                   measVars, sysVars, midiVars, renderVars, collectVars>>

\* lines 129-131 without the test of line 130: the last line wins
TimeSigSetLast(ts) ==
    /\ current_ts' = ts
    /\ current_section' = [current_section EXCEPT !.time_signature = ts]

\* lines 129-131 for the time signature ts of the line
TimeSigSet(ts) ==
    /\ current_ts' = ts
    /\ current_section' =
           IF current_section.time_signature = NoTimeSig
           THEN [current_section EXCEPT !.time_signature = ts]
           ELSE current_section

\* lines 127-133
TimeSigLine ==
    /\ InBody
    /\ Strip(body[i + 1]) # ""
    /\ ~IsTimestamp(body[i + 1])
    /\ IsTimeSig(body[i + 1])
    /\ TimeSigSet(TimeSigOf(body[i + 1]))
    /\ i' = i + 1
    /\ UNCHANGED <<text, pc, pass, score, body, sections, warnings, error, first,
                   measVars, sysVars, midiVars, renderVars, collectVars>>

AtBlockStart ==
    /\ InBody
    /\ Strip(body[i + 1]) # ""
    /\ ~IsTimestamp(body[i + 1])
    /\ ~IsTimeSig(body[i + 1])

\* repr(raw) for a line without quotes or escapes
Repr(raw) == "'" \o raw \o "'"

\* lines 136 and 147-149: what _collect_system_block returned and, for a
\* block, what _parse_system_block did with it
SystemOutcome(got, ts) ==
    IF got.consumed = 0
    THEN [consumed |-> 0, raised |-> FALSE, warnings |-> <<>>, system |-> NoSystem]
    ELSE [consumed |-> got.consumed] @@ ParseSystemBlock(got.block, ts)

\* lines 137-145
UnrecognizedLine ==
    /\ AtBlockStart
    /\ CollectSystemBlock(body, i).consumed = 0
    /\ warnings' = Append(warnings,
                          [line_no |-> i + 1,
                           message |-> "Unrecognized line skipped: " \o Repr(body[i + 1])])
    /\ i' = i + 1
    /\ UNCHANGED <<text, pc, pass, score, body, sections, current_section, current_ts,
                   error, first, measVars, sysVars, midiVars, renderVars, collectVars>>

\* lines 150-152 with "i += 1" in place of "i += consumed"
SystemAppendedOneLine(o) ==
    /\ o.consumed # 0
    /\ ~o.raised
    /\ warnings' = warnings \o o.warnings
    /\ current_section' = [current_section EXCEPT !.systems = Append(@, o.system)]
    /\ i' = i + 1

\* lines 150-152 for the outcome o
SystemAppended(o) ==
    /\ o.consumed # 0
    /\ ~o.raised
    /\ warnings' = warnings \o o.warnings
    /\ current_section' = [current_section EXCEPT !.systems = Append(@, o.system)]
    /\ i' = i + o.consumed

\* lines 136-152 when _parse_system_block returns
SystemBlock ==
    /\ AtBlockStart
    /\ SystemAppended(SystemOutcome(CollectSystemBlock(body, i), current_ts))
    /\ UNCHANGED <<text, pc, pass, score, body, sections, current_ts, error, first,
                   measVars, sysVars, midiVars, renderVars, collectVars>>

\* lines 136-149 when Fraction(4, ts.denominator) raises inside
\* _parse_system_block: the exception escapes parse_tab
SystemBlockRaises ==
    /\ AtBlockStart
    /\ SystemOutcome(CollectSystemBlock(body, i), current_ts).raised
    /\ pc' = "failed"
    /\ error' = "ZeroDivisionError"
    /\ UNCHANGED <<text, pass, score, body, i, sections, current_section, current_ts,
                   warnings, first, measVars, sysVars, midiVars, renderVars, collectVars>>

\* lines 154-155 and parse_tab lines 42-44
EndOfBody ==
    /\ pc = "body"
    /\ i >= Len(body)
    /\ sections' = FlushSection(sections, current_section)
    /\ current_section' = EmptySection
    /\ pc' = "done"
    /\ UNCHANGED <<text, pass, score, body, i, current_ts, warnings, error, first,
                   measVars, sysVars, midiVars, renderVars, collectVars>>

\* render_tab_from_model(score), whose text is then given to parse_tab
RenderFromModel ==
    /\ pc = "done"
    /\ pass = 1
    /\ first' = [sections |-> sections, warnings |-> warnings]
    /\ text' = RenderTabFromModel([title |-> score.title, artist |-> score.artist,
                                   capo |-> score.capo, sections |-> sections])
    /\ pass' = 2
    /\ pc' = "header"
    /\ UNCHANGED <<score, body, i, sections, current_section, current_ts, warnings,
                   error, measVars, sysVars, midiVars, renderVars, collectVars>>

\* render_tab(score), whose text is then given to parse_tab
RenderRaw ==
    /\ pc = "done"
    /\ pass = 1
    /\ first' = [sections |-> sections, warnings |-> warnings]
    /\ text' = RenderTab([title |-> score.title, artist |-> score.artist,
                          capo |-> score.capo, sections |-> sections])
    /\ pass' = 3
    /\ pc' = "header"
    /\ UNCHANGED <<score, body, i, sections, current_section, current_ts, warnings,
                   error, measVars, sysVars, midiVars, renderVars, collectVars>>

\* ------------------------------------------------------------------------
\* _parse_measure_events, one loop iteration at a time
\* ------------------------------------------------------------------------

\* the Tuning a measure of n strings is parsed under
TuningOf(n) == SubSeq(<<"E", "B", "G", "D", "A", "E">>, 1, n)

\* lines 428-480: dur_slice is None
UnknownRhythm ==
    /\ mpc = "start"
    /\ ~has_dur
    /\ events' = AssignPitches(UnknownRhythmEvents(string_slices),
                               TuningOf(Len(string_slices)))
    /\ mpc' = "done"
    /\ UNCHANGED <<string_slices, dur_slice, has_dur, m_ts, walk, docVars, sysVars, midiVars, renderVars, collectVars>>

InWalk == mpc \in {"start", "walk"} /\ has_dur /\ walk.col < Len(dur_slice)

\* the loop state st that one iteration leaves, when it did not raise
WalkTo(st) == ~st.raised /\ walk' = st

\* the loop state st that one iteration leaves, when it raised
WalkRaisedTo(st) == st.raised /\ walk' = st

\* lines 485-489: no duration token at col
DurSkip ==
    /\ InWalk
    /\ ~MaybeParseDurationAt(dur_slice, walk.col).found
    /\ WalkTo(DurStep(walk, string_slices, dur_slice, m_ts))
    /\ mpc' = "walk"
    /\ UNCHANGED <<string_slices, dur_slice, has_dur, m_ts, events, docVars, sysVars, midiVars, renderVars, collectVars>>

\* lines 485-524: a duration token at col
DurToken ==
    /\ InWalk
    /\ MaybeParseDurationAt(dur_slice, walk.col).found
    /\ WalkTo(DurStep(walk, string_slices, dur_slice, m_ts))
    /\ mpc' = "walk"
    /\ UNCHANGED <<string_slices, dur_slice, has_dur, m_ts, events, docVars, sysVars, midiVars, renderVars, collectVars>>

\* lines 491-494 when _duration_token_to_beats raises ZeroDivisionError
DurRaise ==
    /\ InWalk
    /\ WalkRaisedTo(DurStep(walk, string_slices, dur_slice, m_ts))
    /\ mpc' = "raised"
    /\ UNCHANGED <<string_slices, dur_slice, has_dur, m_ts, events, docVars, sysVars, midiVars, renderVars, collectVars>>

\* lines 485 and 526-527: the loop ends and the pitches are assigned
DurFinish ==
    /\ mpc \in {"start", "walk"}
    /\ has_dur
    /\ walk.col >= Len(dur_slice)
    /\ events' = AssignPitches(walk.events, TuningOf(Len(string_slices)))
    /\ mpc' = "done"
    /\ UNCHANGED <<string_slices, dur_slice, has_dur, m_ts, walk, docVars, sysVars, midiVars, renderVars, collectVars>>

\* ------------------------------------------------------------------------
\* _find_bar_tokens and _parse_system_block on one block
\* ------------------------------------------------------------------------

\* the text of the first string line of the block
RECURSIVE FirstStringLine(_, _)
FirstStringLine(blk, k) ==
    IF k > Len(blk) THEN NoLine
    ELSE IF IsStringLine(blk[k].text) THEN blk[k].text
    ELSE FirstStringLine(blk, k + 1)

\* line 331: list(_find_bar_tokens(ref)), ref the content of string line 0
ScanBarTokens ==
    /\ spc = "start"
    /\ bar_tokens' = FindBarTokens(ContentOf(FirstStringLine(block, 1)))
    /\ spc' = "scanned"
    /\ UNCHANGED <<block, system_out, docVars, measVars, midiVars, renderVars, collectVars>>

\* the (system, warnings) that _parse_system_block returned
SystemReturned(o) ==
    /\ ~o.raised
    /\ system_out' = [system |-> o.system, warnings |-> o.warnings]

\* _parse_system_block(block, base_line, TimeSignature(4, 4))
ParseSystem ==
    /\ spc = "scanned"
    /\ SystemReturned(ParseSystemBlock(block, DefaultTimeSig))
    /\ spc' = "parsed"
    /\ UNCHANGED <<block, bar_tokens, docVars, measVars, midiVars, renderVars, collectVars>>

\* ------------------------------------------------------------------------
\* Documents: Spec
\* ------------------------------------------------------------------------

MaxBodyLines == 3

GoodHeader == <<"title: T", "artist: A">>

HeaderPool ==
    {GoodHeader,
     <<"artist: A", "title: T">>,
     <<"", "TITLE:T", "capo: 2", "Artist:  A">>,
     <<"title: T">>,
     <<"artist: A">>,
     <<"capo: 3">>,
     <<"title:", "artist: A">>,
     <<"title: T", "capo: x", "artist: A">>,
     <<>>}

BodyLines ==
    {"", "1:07", "3/4", "4/0", "junk", " Q a", " Wx2", "E|-3-|", "B|1|(2)|", "|x-12"}

Bodies == UNION {[1..k -> BodyLines] : k \in 0..MaxBodyLines}

FixedBody == <<"3/4", "E|-3-|">>

Documents == {GoodHeader \o b : b \in Bodies} \cup {h \o FixedBody : h \in HeaderPool}

Init ==
    /\ text \in Documents
    /\ pc = "header" /\ pass = 1 /\ score = NoScore /\ body = <<>>
    /\ i = 0 /\ sections = <<>> /\ current_section = EmptySection
    /\ current_ts = DefaultTimeSig /\ warnings = <<>> /\ error = "none"
    /\ first = [sections |-> <<>>, warnings |-> <<>>]
    /\ MeasIdle
    /\ SysIdle
    /\ MidiIdle
    /\ RenderIdle
    /\ CollectIdle

Next ==
    \/ ParseHeaderOk
    \/ ParseHeaderFail
    \/ SkipBlank
    \/ TimestampLine
    \/ TimeSigLine
    \/ UnrecognizedLine
    \/ SystemBlock
    \/ SystemBlockRaises
    \/ EndOfBody
    \/ RenderFromModel
    \/ RenderRaw

Spec == Init /\ [][Next]_vars

\* ------------------------------------------------------------------------
\* Measures: SpecMeasure
\* ------------------------------------------------------------------------

MaxCols == 3
MaxDots == 2

\* every string of n characters drawn from chars
RECURSIVE StringsOfLen(_, _)
StringsOfLen(chars, n) ==
    IF n = 0 THEN {""} ELSE {c \o t : c \in chars, t \in StringsOfLen(chars, n - 1)}

\* a second string row with one note at its first or at its last column
SecondRows(n) == {"3" \o Repeat("-", n - 1), Repeat("-", n - 1) \o "3"}

RowSets(chars, n) ==
    {<<r>> : r \in StringsOfLen(chars, n)}
    \cup {<<r, q>> : r \in StringsOfLen(chars, n), q \in SecondRows(n)}

\* string rows long enough for every duration slice below, cut to n columns
LongRows ==
    { <<"3-5h7-x-(2)-1">>,
      <<"3-5h7-x-(2)-1", "-2-----/4~-0-">>,
      <<"3-5h7-x-(2)-1", "-2-----/4~-0-", "01p0--12-----">> }

CutRows(rows, n) == [k \in DOMAIN rows |-> Slice(rows[k], 0, n)]

\* duration tokens: tie, symbol, dots, multi-measure-rest suffix
DurationTokens ==
    {tie \o sym \o Repeat(".", dots) \o suffix :
        tie \in {"", "+"}, sym \in DURATION_SYMBOLS, dots \in 0..MaxDots,
        suffix \in {"", "x0", "x2"}}

TokenSlices ==
    {lead \o tok \o rest : lead \in {"", " "}, tok \in DurationTokens,
                            rest \in {"", "Q", "."}}

TimeSigs ==
    {DefaultTimeSig, [numerator |-> 6, denominator |-> 8], [numerator |-> 4, denominator |-> 0]}

\* measures without a duration line
UnknownInputs ==
    /\ string_slices \in RowSets({"-", "1", "2", "x", "(", ")"}, MaxCols)
    /\ has_dur = FALSE
    /\ dur_slice = NoLine
    /\ m_ts = DefaultTimeSig

\* every short duration slice over every short row
GridInputs ==
    /\ string_slices \in RowSets({"-", "3", "x"}, MaxCols)
    /\ has_dur = TRUE
    /\ dur_slice \in StringsOfLen({" ", "Q", "e", "."}, MaxCols)
    /\ m_ts = DefaultTimeSig

\* every duration token over fixed rows, under each time signature
TokenInputs ==
    /\ has_dur = TRUE
    /\ dur_slice \in TokenSlices
    /\ string_slices \in {CutRows(rows, Len(dur_slice)) : rows \in LongRows}
    /\ m_ts \in TimeSigs

InitMeasure ==
    /\ DocIdle
    /\ SysIdle
    /\ MidiIdle
    /\ RenderIdle
    /\ CollectIdle
    /\ UnknownInputs \/ GridInputs \/ TokenInputs
    /\ walk = DurStart
    /\ events = <<>>
    /\ mpc = "start"

NextMeasure ==
    \/ UnknownRhythm
    \/ DurSkip
    \/ DurToken
    \/ DurRaise
    \/ DurFinish

SpecMeasure == InitMeasure /\ [][NextMeasure]_vars

\* ------------------------------------------------------------------------
\* Systems: SpecSystem
\* ------------------------------------------------------------------------

MaxBarCols == 4

\* the reference string line: label E, the opening bar, then every text of
\* at most MaxBarCols characters
ReferenceLines ==
    UNION {{"E|" \o t : t \in StringsOfLen({"|", "o", "*", "-", "3"}, n)} : n \in 0..MaxBarCols}

LinesBefore == {<<>>, <<" Q e">>}

LinesAfter == {<<>>, <<"B|-2-|">>, <<"B|--|-">>, <<"B|-2-|", "G|--|-">>}

BarBlocks ==
    {BlockOf(pre \o <<ref>> \o post, 0, Len(pre) + 1 + Len(post)) :
        pre \in LinesBefore, ref \in ReferenceLines, post \in LinesAfter}

\* every string label the labeled-line pattern accepts
LabelPool == {l \o a : l \in StringLetters, a \in {"", "#", "b"}}

StandardLines == <<"E|2-x|", "B|2-x|", "G|2-x|", "D|2-x|", "A|2-x|", "E|2-x|">>

\* systems of two and of six strings where one line carries each label, or
\* where no line is labeled
LabelBlocks ==
    {BlockOf(pre \o <<"E|2-x|", lab \o "|2-x|">>, 0, Len(pre) + 2) :
        pre \in LinesBefore, lab \in LabelPool}
    \cup {BlockOf([StandardLines EXCEPT ![k] = lab \o "|2-x|"], 0, 6) :
            k \in 1..6, lab \in LabelPool}
    \cup {BlockOf([k \in 1..n |-> "|2-x|"], 0, n) : n \in {2, 6}}

Blocks == BarBlocks \cup LabelBlocks

InitSystem ==
    /\ DocIdle
    /\ MeasIdle
    /\ MidiIdle
    /\ RenderIdle
    /\ CollectIdle
    /\ block \in Blocks
    /\ bar_tokens = <<>>
    /\ system_out = [system |-> NoSystem, warnings |-> <<>>]
    /\ spc = "start"

NextSystem ==
    \/ ScanBarTokens
    \/ ParseSystem

SpecSystem == InitSystem /\ [][NextSystem]_vars

\* ------------------------------------------------------------------------
\* midi_export.py: to_midi_events, one measure at a time (SpecMidi)
\* ------------------------------------------------------------------------

\* the measures of systems k.. in order
RECURSIVE MeasuresOfSystems(_, _)
MeasuresOfSystems(systems, k) ==
    IF k > Len(systems) THEN <<>>
    ELSE systems[k].measures \o MeasuresOfSystems(systems, k + 1)

\* lines 20-22: the measures of a score in document order
RECURSIVE MeasuresOf(_, _)
MeasuresOf(secs, k) ==
    IF k > Len(secs) THEN <<>>
    ELSE MeasuresOfSystems(secs[k].systems, 1) \o MeasuresOf(secs, k + 1)

MidiEvent(time_sec, type, pitch) ==
    [time_sec |-> time_sec, type |-> type, pitch |-> pitch, velocity |-> 90, channel |-> 0]

\* float(beats) * sec_per_beat with sec_per_beat = 60.0 / float(tempo_bpm).
\* The tempos and the beats of SpecMidi are such that both floats and
\* their product are exact, so the seconds are kept as an exact rational.
SecondsOf(beats, tempo) == FMul(beats, Frac(60, tempo))

\* lines 27-38 and 41-55: the markers of one NoteEvent
NoteMarkers(ne, t_abs, tempo) ==
    IF ne.pitch = None THEN <<>>
    ELSE <<MidiEvent(SecondsOf(FAdd(t_abs, ne.start), tempo), "note_on", ne.pitch),
           MidiEvent(SecondsOf(FAdd(FAdd(t_abs, ne.start), ne.duration), tempo),
                     "note_off", ne.pitch)>>

\* lines 40-55: the markers of the notes k.. of a ChordEvent
RECURSIVE ChordMarkers(_, _, _, _)
ChordMarkers(notes, k, t_abs, tempo) ==
    IF k > Len(notes) THEN <<>>
    ELSE NoteMarkers(notes[k], t_abs, tempo) \o ChordMarkers(notes, k + 1, t_abs, tempo)

\* lines 24-55: the markers of the events k.. of one measure
RECURSIVE MeasureMarkers(_, _, _, _)
MeasureMarkers(evs, k, t_abs, tempo) ==
    IF k > Len(evs) THEN <<>>
    ELSE (IF evs[k].kind = "note" THEN NoteMarkers(evs[k], t_abs, tempo)
          ELSE IF evs[k].kind = "chord" THEN ChordMarkers(evs[k].notes, 1, t_abs, tempo)
          ELSE <<>>)
         \o MeasureMarkers(evs, k + 1, t_abs, tempo)

\* an advance of lines 59-61 that counts the events instead of their durations
AdvanceByCount(t_abs, evs) == FAdd(t_abs, FInt(Len(evs)))

\* lines 59-61: t_abs_beats after the measure
AdvanceBeats(t_abs, evs) ==
    IF FLt(FInt(0), SumDurations(evs, 1)) THEN FAdd(t_abs, SumDurations(evs, 1)) ELSE t_abs

\* a sort key of line 65 without the note_on / note_off rank
MidiKeyLeNoRank(x, y) ==
    \/ FLt(x.time_sec, y.time_sec)
    \/ x.time_sec = y.time_sec /\ x.pitch <= y.pitch

\* line 65: the key (time_sec, 0 if note_on else 1, pitch), compared as
\* Python compares tuples
MidiKeyLe(x, y) ==
    \/ FLt(x.time_sec, y.time_sec)
    \/ /\ x.time_sec = y.time_sec
       /\ \/ x.type = "note_on" /\ y.type # "note_on"
          \/ (x.type = "note_on") = (y.type = "note_on") /\ x.pitch <= y.pitch

\* insertion of e after the last element whose key is <= e's (a stable sort)
RECURSIVE MidiInsertSorted(_, _)
MidiInsertSorted(sorted, e) ==
    IF Len(sorted) = 0 THEN <<e>>
    ELSE IF MidiKeyLe(sorted[Len(sorted)], e) THEN Append(sorted, e)
    ELSE Append(MidiInsertSorted(SubSeq(sorted, 1, Len(sorted) - 1), e),
                sorted[Len(sorted)])

\* line 65: events.sort(key=...)
RECURSIVE MidiSort(_)
MidiSort(evs) ==
    IF Len(evs) = 0 THEN <<>>
    ELSE MidiInsertSorted(MidiSort(SubSeq(evs, 1, Len(evs) - 1)), evs[Len(evs)])

\* lines 22-61 for the next measure m of the score
MidiMeasureStep(m) ==
    /\ midi_events' = midi_events \o MeasureMarkers(m.events, 1, t_abs_beats, tempo_bpm)
    /\ t_abs_beats' = AdvanceBeats(t_abs_beats, m.events)

\* one iteration of the loop over the measures
MidiMeasure ==
    /\ xpc = "loop"
    /\ measure_no < Len(MeasuresOf(midi_score, 1))
    /\ MidiMeasureStep(MeasuresOf(midi_score, 1)[measure_no + 1])
    /\ measure_no' = measure_no + 1
    /\ UNCHANGED <<midi_score, tempo_bpm, xpc, docVars, measVars, sysVars, renderVars, collectVars>>

\* lines 64-66: the loops are over, the events are sorted and returned
MidiReturn ==
    /\ xpc = "loop"
    /\ measure_no >= Len(MeasuresOf(midi_score, 1))
    /\ midi_events' = MidiSort(midi_events)
    /\ xpc' = "returned"
    /\ UNCHANGED <<midi_score, tempo_bpm, t_abs_beats, measure_no, docVars, measVars, sysVars, renderVars, collectVars>>

MaxMidiSystems == 2

\* tempos whose seconds per beat (1, 1/2, 1/4) are exact floats
Tempos == {60, 120, 240}

\* system blocks: a single note, a chord and a chord with a muted note, a
\* rest, an empty measure before a note, a muted note, two strings over
\* two measures
MidiBlockLines ==
    {<<"E|3-|">>,
     <<" Q e", "E|2-x|", "B|2-3|">>,
     <<" H  ", "E|---|">>,
     <<"E|-|3|">>,
     <<"E|x-|">>,
     <<"E|3|5-7|", "B|0|---|">>}

\* the TabSystem the parser builds from each block
MidiSystems ==
    {ParseSystemBlock(BlockOf(lines, 0, Len(lines)), DefaultTimeSig).system :
        lines \in MidiBlockLines}

SectionOf(systems) == [EmptySection EXCEPT !.systems = systems]

\* scores of one section of up to MaxMidiSystems systems, and of two
\* sections of one system each
MidiScores ==
    {<<SectionOf(systems)>> :
        systems \in UNION {[1..n -> MidiSystems] : n \in 1..MaxMidiSystems}}
    \cup {<<SectionOf(<<a>>), SectionOf(<<b>>)>> : a \in MidiSystems, b \in MidiSystems}

InitMidi ==
    /\ DocIdle
    /\ MeasIdle
    /\ SysIdle
    /\ RenderIdle
    /\ CollectIdle
    /\ midi_score \in MidiScores
    /\ tempo_bpm \in Tempos
    /\ t_abs_beats = FInt(0)
    /\ midi_events = <<>>
    /\ measure_no = 0
    /\ xpc = "loop"

NextMidi ==
    \/ MidiMeasure
    \/ MidiReturn

SpecMidi == InitMidi /\ [][NextMidi]_vars

\* ------------------------------------------------------------------------
\* tab_render_model.py: _render_measure, one event at a time (SpecRender)
\* ------------------------------------------------------------------------

\* lines 89-94: the empty grid and the duration line
RenderBegin ==
    /\ rpc = "start"
    /\ r_out' = [grid |-> [k \in 1..r_strings |-> Repeat("-", MeasureWidth(r_measure))],
                 dur |-> Repeat(" ", MeasureWidth(r_measure)),
                 has_dur |-> HasRhythmMode(r_measure.events)]
    /\ r_k' = 0
    /\ rpc' = "place"
    /\ UNCHANGED <<r_measure, r_strings, docVars, measVars, sysVars, midiVars, collectVars>>

\* lines 97-119: one iteration of the loop over measure.events
RenderPlace ==
    /\ rpc = "place"
    /\ r_k < Len(r_measure.events)
    /\ r_out' = PlaceEvent(r_out, r_measure.events[r_k + 1],
                           TimeToCol(MakeTimeToColMapper(r_measure.events,
                                                         MeasureWidth(r_measure)),
                                     r_measure.events[r_k + 1].start))
    /\ r_k' = r_k + 1
    /\ UNCHANGED <<r_measure, r_strings, rpc, docVars, measVars, sysVars, midiVars, collectVars>>

\* line 121: return grid, duration_line
RenderReturn ==
    /\ rpc = "place"
    /\ r_k >= Len(r_measure.events)
    /\ rpc' = "returned"
    /\ UNCHANGED <<r_measure, r_strings, r_out, r_k, docVars, measVars, sysVars, midiVars, collectVars>>

MaxRenderWidth == 6

\* the events the parser gives for measures without a duration line
RenderUnknownEvents ==
    {ParseMeasureEvents(rows, FALSE, NoLine, DefaultTimeSig, TuningOf(Len(rows))).events :
        rows \in {<<"3-5">>, <<"3-5", "-2x">>, <<"(7)">>, <<"---">>, <<"12-">>}}

\* the events the parser gives for measures under a duration line
RenderDurationEvents ==
    {ParseMeasureEvents(rows, TRUE, ds, DefaultTimeSig, TuningOf(Len(rows))).events :
        rows \in {<<"3-5">>, <<"3-5", "2-x">>},
        ds \in {"Q e", "W  ", "E.Q", "a Q", "QQQ", "H e"}}

\* a NoteEvent of the model at column or beat start
ModelNote(start, duration, string_index) ==
    NoteEvent(FInt(start), FInt(duration), string_index, 9, <<>>, FALSE, FALSE, FALSE)

\* events built directly from the model, with starts around the limit of
\* 64 and with durations of zero
RenderModelEvents ==
    {<<ModelNote(RhythmStartLimit - 1, 1, 0)>>,
     <<ModelNote(RhythmStartLimit, 1, 0)>>,
     <<ModelNote(RhythmStartLimit + 6, 1, 0), ModelNote(RhythmStartLimit + 7, 1, 1)>>,
     <<ModelNote(0, 1, 0), ModelNote(RhythmStartLimit, 1, 1)>>,
     <<ModelNote(2, 1, 0), ModelNote(RhythmStartLimit + 2, 1, 1)>>,
     <<ModelNote(0, 0, 0), ModelNote(2, 0, 0)>>}

\* raw_columns: absent, zero, short, and long enough for the starts above
RenderWidths ==
    {None, 0, MaxRenderWidth - 3, MaxRenderWidth, RhythmStartLimit + MaxRenderWidth + 2}

InitRender ==
    /\ DocIdle
    /\ MeasIdle
    /\ SysIdle
    /\ MidiIdle
    /\ CollectIdle
    /\ r_measure \in [events : RenderUnknownEvents \cup RenderDurationEvents
                                  \cup RenderModelEvents,
                       raw_columns : RenderWidths]
    /\ r_strings \in {1, 2}
    /\ r_out = [grid |-> <<>>, dur |-> "", has_dur |-> FALSE]
    /\ r_k = 0
    /\ rpc = "start"

NextRender ==
    \/ RenderBegin
    \/ RenderPlace
    \/ RenderReturn

SpecRender == InitRender /\ [][NextRender]_vars

\* ------------------------------------------------------------------------
\* _collect_system_block on a list of lines, from a start index
\* ------------------------------------------------------------------------

\* the "return [], 0" exits (lines 173, 175, 183, 212)
CollectNothing ==
    /\ cpc = "start"
    /\ CollectSystemBlock(c_lines, c_start).block = <<>>
    /\ c_out' = CollectSystemBlock(c_lines, c_start)
    /\ cpc' = "returned"
    /\ UNCHANGED <<c_lines, c_start, docVars, measVars, sysVars, midiVars, renderVars>>

\* "return block, len(block)" (line 213)
CollectBlock ==
    /\ cpc = "start"
    /\ CollectSystemBlock(c_lines, c_start).block # <<>>
    /\ c_out' = CollectSystemBlock(c_lines, c_start)
    /\ cpc' = "returned"
    /\ UNCHANGED <<c_lines, c_start, docVars, measVars, sysVars, midiVars, renderVars>>

MaxCollectLines == 3

\* blank, timestamp, time signature, unrecognized, duration line, header
\* field, labeled and bare-| string lines, triplet and palm-mute lines
CollectPool ==
    {"", "1:07", "3/4", "junk", " Q a", "capo: 2", "E|-3-|", "|--12", "|x-12",
     "|-3-|", "|PM--|", "PM--|"}

RECURSIVE LinesUpTo(_)
LinesUpTo(n) ==
    IF n = 0 THEN {<<>>}
    ELSE LinesUpTo(n - 1)
         \cup {Append(ls, l) : ls \in {x \in LinesUpTo(n - 1) : Len(x) = n - 1},
                               l \in CollectPool}

InitCollect ==
    /\ DocIdle
    /\ MeasIdle
    /\ SysIdle
    /\ MidiIdle
    /\ RenderIdle
    /\ c_lines \in LinesUpTo(MaxCollectLines)
    /\ c_start \in 0..Len(c_lines)
    /\ c_out = [block |-> <<>>, consumed |-> 0]
    /\ cpc = "start"

NextCollect ==
    \/ CollectNothing
    \/ CollectBlock

SpecCollect == InitCollect /\ [][NextCollect]_vars

\* ------------------------------------------------------------------------
\* Properties of parse_tab and render_tab_from_model (Spec)
\* ------------------------------------------------------------------------

\* a stripped line that is a title, artist or capo field
IsHeaderField(line) ==
    \/ MatchesTextField(line, "title:")
    \/ MatchesTextField(line, "artist:")
    \/ MatchesCapo(line)

\* line k (1-based) lies in the header region: no line up to it is a
\* non-blank line that is not a field
InHeaderRegion(lines, k) ==
    \A j \in 1..k : Strip(lines[j]) = "" \/ IsHeaderField(Strip(lines[j]))

\* the header region holds a field of the given key
RegionHas(lines, key) ==
    \E k \in DOMAIN lines : InHeaderRegion(lines, k) /\ MatchesTextField(Strip(lines[k]), key)

\* C1 as stated: whenever the header region of the text holds a title and
\* an artist, no exception escapes parse_tab, whatever the body holds.
C1_CompleteHeaderNeverRaises ==
    (RegionHas(text, "title:") /\ RegionHas(text, "artist:")) => error = "none"

\* C2: once _parse_header has run on a text whose header region lacks a
\* title field or lacks an artist field, parse_tab has raised TabParseError
\* and no Score exists: nothing of the text was parsed into one.
C2_MissingFieldRaises ==
    (pc # "header" /\ (~RegionHas(text, "title:") \/ ~RegionHas(text, "artist:")))
        => (pc = "failed" /\ error = "TabParseError" /\ score = NoScore /\ sections = <<>>)

\* C2 witness: a text whose header region holds a title but no artist has
\* been refused with TabParseError.
C2_Witness ==
    /\ pc = "failed"
    /\ error = "TabParseError"
    /\ RegionHas(text, "title:")
    /\ ~RegionHas(text, "artist:")

\* the NoteEvents of a measure, those inside chords included
RECURSIVE NotesOf(_, _)
NotesOf(evs, k) ==
    IF k > Len(evs) THEN <<>>
    ELSE (IF evs[k].kind = "note" THEN <<evs[k]>>
          ELSE IF evs[k].kind = "chord" THEN evs[k].notes
          ELSE <<>>)
         \o NotesOf(evs, k + 1)

\* (string_index, fret, start as integer column)
TripleOf(ne) == <<ne.string_index, ne.fret, FFloor(ne.start)>>

\* the multiset of triples of a measure, as a function from triple to count
TripleBag(evs) ==
    LET notes == NotesOf(evs, 1)
    IN  [t \in {TripleOf(notes[k]) : k \in DOMAIN notes} |->
            Cardinality({k \in DOMAIN notes : TripleOf(notes[k]) = t})]

MeasureBags(secs) ==
    LET ms == MeasuresOf(secs, 1) IN [k \in DOMAIN ms |-> TripleBag(ms[k].events)]

\* every system of the score was parsed without a duration line
UnknownRhythmScore(secs) ==
    \A a \in DOMAIN secs : \A b \in DOMAIN secs[a].systems :
        secs[a].systems[b].duration_line = NoLine

\* C3 as stated: when a score parsed without any duration line has been
\* rendered and the rendered text parsed again, the second parse succeeded
\* and every measure holds the same multiset of (string_index, fret,
\* integer start column) triples as in the first parse.
C3_RoundTripKeepsTriples ==
    (pass = 2 /\ pc \in {"done", "failed"} /\ UnknownRhythmScore(first.sections))
        => (pc = "done" /\ MeasureBags(sections) = MeasureBags(first.sections))

\* ------------------------------------------------------------------------
\* Properties of _parse_measure_events (SpecMeasure)
\* ------------------------------------------------------------------------

\* the columns at which the left-to-right scan of a duration slice
\* recognizes a token
RECURSIVE TokenColumns(_, _)
TokenColumns(s, c) ==
    IF c >= Len(s) THEN <<>>
    ELSE IF MaybeParseDurationAt(s, c).found
    THEN <<c>> \o TokenColumns(s, c + MaybeParseDurationAt(s, c).consumed)
    ELSE TokenColumns(s, c + 1)

\* the string rows that hold a note token at column c
HoldersAt(rows, c) == {si \in 0..(Len(rows) - 1) : ParseNoteAt(rows[si + 1], c).found}

\* the event of a token agrees with the rows that hold a note at its column
EventMatchesHolders(ev, holders, dur) ==
    /\ ev.duration = dur
    /\ Cardinality(holders) = 0 => ev.kind = "rest"
    /\ Cardinality(holders) = 1 => (ev.kind = "note" /\ ev.string_index \in holders)
    /\ Cardinality(holders) >= 2 =>
        /\ ev.kind = "chord"
        /\ Len(ev.notes) = Cardinality(holders)
        /\ Len(ev.notes) >= 2
        /\ \A j \in DOMAIN ev.notes :
            /\ ev.notes[j].kind = "note"
            /\ ev.notes[j].string_index \in holders
            /\ ev.notes[j].start = ev.start
            /\ ev.notes[j].duration = ev.duration
        /\ \A j \in 1..(Len(ev.notes) - 1) :
            ev.notes[j].string_index < ev.notes[j + 1].string_index

\* C4: when a duration-driven measure has been parsed, it holds one event
\* per duration token recognized in its slice, and the k-th event is a rest,
\* a note or a chord of all matched notes (increasing string_index, sharing
\* start and duration) as zero, one or several rows hold a note token at
\* the k-th token's column.
C4_OneEventPerToken ==
    (mpc = "done" /\ has_dur) =>
        LET cols == TokenColumns(dur_slice, 0)
        IN  /\ Len(events) = Len(cols)
            /\ \A k \in DOMAIN events :
                EventMatchesHolders(
                    events[k], HoldersAt(string_slices, cols[k]),
                    DurationTokenToBeats(MaybeParseDurationAt(dur_slice, cols[k]).token,
                                         m_ts).dur)

\* C4 witness: a parsed duration-driven measure holding a rest, a note and
\* a chord.
C4_Witness ==
    /\ mpc = "done"
    /\ has_dur
    /\ \E a, b, c \in DOMAIN events :
        events[a].kind = "rest" /\ events[b].kind = "note" /\ events[c].kind = "chord"

\* the event ev of unknown-rhythm mode sits on the first character of a
\* note token of its row
StartsOnToken(row, c, ev) ==
    /\ 0 <= c
    /\ c < Len(row)
    /\ \/ /\ IsDigit(At(row, c))
          /\ c = 0 \/ ~IsDigit(At(row, c - 1))
          /\ ev.fret = ParseInt(row, c, SpanEnd(row, c, Digits))
          /\ ~ev.is_ghost
       \/ /\ At(row, c) = "("
          /\ ev.is_ghost
          /\ ev.fret = ParseInt(row, c + 1, SpanEnd(row, c + 1, Digits))
       \/ /\ At(row, c) \in {"x", "X"}
          /\ ev.fret = None

\* C5: when a measure without a duration line has been parsed, every event
\* is a NoteEvent of exactly 1 beat whose start is the integer column of its
\* token in the slice, and the events are sorted by (start, string_index).
C5_UnknownRhythmEvents ==
    (mpc = "done" /\ ~has_dur) =>
        /\ \A k \in DOMAIN events :
            /\ events[k].kind = "note"
            /\ events[k].duration = [n |-> 1, d |-> 1]
            /\ events[k].start.d = 1
            /\ events[k].string_index \in 0..(Len(string_slices) - 1)
            /\ StartsOnToken(string_slices[events[k].string_index + 1],
                             events[k].start.n, events[k])
        /\ \A j, k \in DOMAIN events :
            j < k =>
                \/ events[j].start.n < events[k].start.n
                \/ /\ events[j].start.n = events[k].start.n
                   /\ events[j].string_index <= events[k].string_index

\* C5 witness: a parsed measure without a duration line that holds notes of
\* two strings, one of them at a later column of the upper string.
C5_Witness ==
    /\ mpc = "done"
    /\ ~has_dur
    /\ \E j, k \in DOMAIN events :
        /\ j < k
        /\ events[j].string_index = 1
        /\ events[k].string_index = 0
        /\ events[j].start.n < events[k].start.n

\* the base length of an upper-case symbol in sixteenths of a beat
SixteenthsOf(sym) ==
    CASE sym = "W" -> 64
      [] sym = "H" -> 32
      [] sym = "Q" -> 16
      [] sym = "E" -> 8
      [] sym = "S" -> 4
      [] sym = "T" -> 2
      [] sym = "X" -> 1

\* base times 1, 3/2 or 7/4 for 0, 1 or 2 dots, halved for a lowercase symbol
ExpectedBeats(sym, dotted) ==
    Frac(SixteenthsOf(UpperCh(sym)) * (CASE dotted = 0 -> 4 [] dotted = 1 -> 6 [] dotted = 2 -> 7),
         16 * 4 * (IF IsLowerCh(sym) THEN 2 ELSE 1))

\* C6: the token last resolved by the walk, when its symbol is one of
\* W,H,Q,E,S,T,X in either case, with at most two dots and no
\* multi-measure-rest count, has the length base x (1, 3/2, 7/4 by dots),
\* halved when the symbol is lowercase.
C6_DottedAndStaccatoBeats ==
    (/\ UpperCh(walk.token.symbol) \in {"W", "H", "Q", "E", "S", "T", "X"}
     /\ walk.token.dotted \in 0..2
     /\ walk.token.multibar_rests = None)
        => walk.dur_beats = ExpectedBeats(walk.token.symbol, walk.token.dotted)

\* C6 witness: the walk has resolved the token e.. to 7/16 beat.
C6_Witness ==
    /\ mpc = "walk"
    /\ walk.token.symbol = "e"
    /\ walk.token.dotted = 2
    /\ walk.dur_beats = [n |-> 7, d |-> 16]

\* C7 as stated: after the walk has taken a token whose symbol is the grace
\* symbol a, the token resolved to 0 beats, the event produced has duration
\* 0, its NoteEvents carry the grace flag, and the time cursor is where it
\* was before the token (at the start of that event).
C7_GraceTakesNoTime ==
    (walk.token.symbol = "a" /\ Len(walk.events) > 0) =>
        /\ walk.dur_beats = [n |-> 0, d |-> 1]
        /\ walk.events[Len(walk.events)].duration = [n |-> 0, d |-> 1]
        /\ \A k \in DOMAIN NotesOf(<<walk.events[Len(walk.events)]>>, 1) :
            NotesOf(<<walk.events[Len(walk.events)]>>, 1)[k].grace
        /\ walk.time = walk.events[Len(walk.events)].start

\* C8 as stated: after the walk has resolved a token carrying a
\* multi-measure-rest count n under the time signature num/den, its length
\* is n * num * (4 / den) beats.
C8_MultibarBeats ==
    (/\ walk.token.multibar_rests # None
     /\ ~walk.raised
     /\ m_ts.denominator # 0)
        => walk.dur_beats
               = Frac(walk.token.multibar_rests * m_ts.numerator * 4, m_ts.denominator)

\* ------------------------------------------------------------------------
\* Properties of _find_bar_tokens and _parse_system_block (SpecSystem)
\* ------------------------------------------------------------------------

\* the reference line of the block: the content of its first string line
RefContent == ContentOf(FirstStringLine(block, 1))

BarTexts == {"||o", "o||", "||", "*|", "|"}

\* the tokens lie in the line in increasing order without overlap, and each
\* is the longest bar text that starts at its position
LongestNonOverlapping(ref, tokens) ==
    \A k \in DOMAIN tokens :
        /\ 0 <= tokens[k].a
        /\ tokens[k].a < tokens[k].b
        /\ tokens[k].b <= Len(ref)
        /\ tokens[k].tok \in BarTexts
        /\ Slice(ref, tokens[k].a, tokens[k].b) = tokens[k].tok
        /\ k < Len(tokens) => tokens[k].b <= tokens[k + 1].a
        /\ \A alt \in BarTexts :
            Slice(ref, tokens[k].a, tokens[k].a + Len(alt)) = alt
                => Len(alt) <= Len(tokens[k].tok)

\* position p lies inside a token that starts before it
InsideEarlierToken(tokens, p) ==
    \E k \in DOMAIN tokens : tokens[k].a < p /\ p < tokens[k].b

\* the repeat-start text at p is one repeat-start token
RepeatStartTokenAt(tokens, p) ==
    \E k \in DOMAIN tokens : tokens[k].a = p /\ tokens[k].tok = "||o"

\* C9 amended: the scanned tokens do not overlap, come in increasing
\* position, and each is the longest bar text starting at its position; the
\* text ||o is one repeat-start token wherever it does not begin inside a
\* token that started earlier.
C9_LongestTokenWins ==
    spc \in {"scanned", "parsed"} =>
        /\ LongestNonOverlapping(RefContent, bar_tokens)
        /\ \A p \in 0..(Len(RefContent) - 1) :
            (Slice(RefContent, p, p + 3) = "||o" /\ ~InsideEarlierToken(bar_tokens, p))
                => RepeatStartTokenAt(bar_tokens, p)

\* C9 witness: a scanned line with several tokens, one of them a
\* repeat-start that follows other bar text.
C9_Witness ==
    /\ spc = "scanned"
    /\ \E k \in DOMAIN bar_tokens : k > 1 /\ bar_tokens[k].tok = "||o"

\* C9 as stated: the tokens do not overlap, come in increasing position,
\* the longest is chosen, and the text ||o is always one repeat-start token.
C9_RepeatStartAlwaysOneToken ==
    spc \in {"scanned", "parsed"} =>
        /\ LongestNonOverlapping(RefContent, bar_tokens)
        /\ \A p \in 0..(Len(RefContent) - 1) :
            Slice(RefContent, p, p + 3) = "||o" => RepeatStartTokenAt(bar_tokens, p)

\* the string lines of the block, in order
StringLinesOf(blk) == SelectSeq(blk, TextIsStringLine)

\* the padded contents of the string lines
PaddedContents(blk) ==
    LET raw == [k \in DOMAIN StringLinesOf(blk) |-> ContentOf(StringLinesOf(blk)[k].text)]
    IN  [k \in DOMAIN raw |-> LJust(raw[k], MaxLength(raw))]

\* the end of the left boundary of measure j
LeftEnd(tokens, j) == IF Len(tokens) >= 2 THEN tokens[j].b ELSE 1

\* the start of the right boundary of measure j in a line of width columns
RightStart(tokens, j, width) == IF Len(tokens) >= 2 THEN tokens[j + 1].a ELSE width - 1

\* the measures are as many as the bar tokens of the reference line allow,
\* and each holds the events of the columns between its boundaries
MeasuresFollowBars(sys, contents, tokens) ==
    /\ Len(sys.measures) = IF Len(tokens) >= 2 THEN Len(tokens) - 1 ELSE 1
    /\ \A j \in DOMAIN sys.measures :
        sys.measures[j].events =
            ParseMeasureEvents(
                [k \in DOMAIN contents |->
                    Slice(contents[k], LeftEnd(tokens, j),
                          RightStart(tokens, j, Len(contents[1])))],
                sys.duration_line # NoLine,
                Slice(sys.duration_line, LeftEnd(tokens, j),
                      RightStart(tokens, j, Len(contents[1]))),
                DefaultTimeSig, sys.tuning).events

\* C10 amended: a parsed system has (bar tokens of the reference line) - 1
\* measures when there are at least two tokens and 1 measure otherwise; each
\* measure holds the events of the string lines and the duration line cut to
\* the columns between the left token's end and the right token's start,
\* and raw_columns is the width of that cut: right start minus left end, or
\* 0 when the right start is not beyond the left end.
C10_MeasuresBetweenBars ==
    spc = "parsed" =>
        /\ MeasuresFollowBars(system_out.system, PaddedContents(block), bar_tokens)
        /\ \A j \in DOMAIN system_out.system.measures :
            LET lo == LeftEnd(bar_tokens, j)
                hi == RightStart(bar_tokens, j, Len(PaddedContents(block)[1]))
            IN  system_out.system.measures[j].raw_columns = IF hi > lo THEN hi - lo ELSE 0

\* C10 witness: a parsed system of two or more measures between explicit
\* bar tokens, with notes in one of them.
C10_Witness ==
    /\ spc = "parsed"
    /\ Len(bar_tokens) >= 3
    /\ Len(system_out.system.measures) = Len(bar_tokens) - 1
    /\ \E j \in DOMAIN system_out.system.measures :
        /\ system_out.system.measures[j].events # <<>>
        /\ system_out.system.measures[j].raw_columns > 0

\* C10 as stated: the measure count follows the bar tokens, the measures
\* hold the events of the columns between their boundaries, and raw_columns
\* is right token start minus left token end.
C10_RawColumnsIsDifference ==
    spc = "parsed" =>
        /\ MeasuresFollowBars(system_out.system, PaddedContents(block), bar_tokens)
        /\ \A j \in DOMAIN system_out.system.measures :
            system_out.system.measures[j].raw_columns
                = RightStart(bar_tokens, j, Len(PaddedContents(block)[1]))
                  - LeftEnd(bar_tokens, j)

\* ------------------------------------------------------------------------
\* Properties of the event times (SpecMeasure)
\* ------------------------------------------------------------------------

\* the length in beats of a measure under the time signature ts
MeasureLength(ts) == Frac(ts.numerator * 4, ts.denominator)

\* C15: every event of a parsed measure that does not come from a
\* multi-measure-rest token ends within the measure: start + duration <=
\* numerator * 4/denominator beats.  Checked on the measures whose
\* duration slice has no x, hence no multi-measure-rest token.
C15_EventsEndWithinMeasure ==
    (mpc = "done" /\ m_ts.denominator # 0 /\ ~Contains(dur_slice, "x")) =>
        \A k \in DOMAIN events :
            FLe(FAdd(events[k].start, events[k].duration), MeasureLength(m_ts))

\* ------------------------------------------------------------------------
\* Properties of the barline diagnostics (SpecSystem)
\* ------------------------------------------------------------------------

\* the string lines after the reference line whose bar-token starts are
\* not the sequence positions
DeviatingLines(contents, positions) ==
    {k \in 2..Len(contents) : Positions(FindBarTokens(contents[k])) # positions}

\* the warnings w are one inconsistent-barline diagnostic for each string
\* line of the set deviating, in line order, and nothing else
OneWarningPerLine(w, lines, deviating) ==
    /\ Len(w) = Cardinality(deviating)
    /\ \A k \in DOMAIN w : w[k].message = InconsistentMessage
    /\ {w[k].line_no : k \in DOMAIN w} = {lines[k].no : k \in deviating}
    /\ \A k \in 1..(Len(w) - 1) : w[k].line_no < w[k + 1].line_no

\* the start positions the measures are cut at: those of the reference
\* line's bar tokens, or of the two synthetic bars when it has fewer than two
SegmentPositions(tokens, width) ==
    IF Len(tokens) >= 2 THEN Positions(tokens) ELSE <<0, width - 1>>

\* C11 amended: a non-reference string line gets an inconsistent-barline
\* diagnostic if and only if the start positions of its bar tokens (every
\* string line has at least one, its opening bar) differ from the positions
\* the measures are cut at, which are the reference line's bar-token starts
\* when it has at least two tokens and the synthetic positions 0 and
\* width - 1 otherwise; there is at most one diagnostic per line, the parse
\* does not fail and the measure count follows the reference line.
C11_WarningIffDeviatesFromCuts ==
    /\ spc = "scanned" => ~ParseSystemBlock(block, DefaultTimeSig).raised
    /\ spc = "parsed" =>
        /\ OneWarningPerLine(system_out.warnings, StringLinesOf(block),
                DeviatingLines(PaddedContents(block),
                    SegmentPositions(bar_tokens, Len(PaddedContents(block)[1]))))
        /\ Len(system_out.system.measures)
               = IF Len(bar_tokens) >= 2 THEN Len(bar_tokens) - 1 ELSE 1

\* C11 witness: a parsed system of three string lines where one of the two
\* non-reference lines got the diagnostic and the other did not.
C11_Witness ==
    /\ spc = "parsed"
    /\ Len(StringLinesOf(block)) = 3
    /\ Len(bar_tokens) >= 2
    /\ Len(system_out.warnings) = 1
    /\ system_out.warnings[1].message = InconsistentMessage

\* C11 as stated: the diagnostic is emitted exactly for the lines whose
\* bar-token starts differ from those of the bar tokens found in the
\* reference line.
C11_WarningIffDeviatesFromReference ==
    spc = "parsed" =>
        OneWarningPerLine(system_out.warnings, StringLinesOf(block),
            DeviatingLines(PaddedContents(block), Positions(bar_tokens)))

\* ------------------------------------------------------------------------
\* Properties of the pitches (SpecSystem)
\* ------------------------------------------------------------------------

\* the pitch class of a natural letter, None for anything else
NaturalPitchClass(letter) ==
    CASE letter = "C" -> 0 [] letter = "D" -> 2 [] letter = "E" -> 4 [] letter = "F" -> 5
      [] letter = "G" -> 7 [] letter = "A" -> 9 [] letter = "B" -> 11 [] OTHER -> None

\* the pitch class of a tuning label: the letter's class, raised by # and
\* lowered by b (mod 12), and the class of E when the letter is not A-G
PitchClassOf(label) ==
    LET nat == NaturalPitchClass(UpperCh(At(label, 0)))
        acc == At(label, 1)
    IN  IF nat = None THEN 4
        ELSE IF acc = "#" THEN (nat + 1) % 12
        ELSE IF acc \in {"b", "B"} THEN (nat + 11) % 12
        ELSE nat

\* the octave of string k (0-based) of n strings
OctaveOf(n, k) == IF n = 6 THEN <<4, 3, 3, 3, 2, 2>>[k + 1] ELSE 4

\* every note of the events, standalone or inside a chord
AllNotes(evs) == {NotesOf(evs, 1)[k] : k \in DOMAIN NotesOf(evs, 1)}

\* the note ne has the pitch its string's label and its fret give
PitchFollowsLabel(ne, tuning) ==
    /\ ne.string_index \in 0..(Len(tuning) - 1)
    /\ (ne.pitch = None) <=> (ne.fret = None)
    /\ ne.fret # None =>
          ne.pitch = 12 * (OctaveOf(Len(tuning), ne.string_index) + 1)
                     + PitchClassOf(tuning[ne.string_index + 1]) + ne.fret

\* C12: every NoteEvent of a parsed system, standalone or inside a chord,
\* has a string_index below the number of tuning labels, has no pitch
\* exactly when it has no fret, and otherwise has pitch 12*(octave+1) +
\* pitch class of its string's label + fret, the octave being
\* [4,3,3,3,2,2] by position for six labels and 4 otherwise.
C12_PitchFromLabelAndFret ==
    spc = "parsed" =>
        \A j \in DOMAIN system_out.system.measures :
            \A ne \in AllNotes(system_out.system.measures[j].events) :
                PitchFollowsLabel(ne, system_out.system.tuning)

\* ------------------------------------------------------------------------
\* Properties of to_midi_events (SpecMidi)
\* ------------------------------------------------------------------------

\* the events of the measures k.. in order
RECURSIVE EventsOfMeasures(_, _)
EventsOfMeasures(ms, k) ==
    IF k > Len(ms) THEN <<>> ELSE ms[k].events \o EventsOfMeasures(ms, k + 1)

HasPitch(ne) == ne.pitch # None

\* the notes of the score that have a pitch, standalone or inside a chord
PitchedNotes(secs) ==
    SelectSeq(NotesOf(EventsOfMeasures(MeasuresOf(secs, 1), 1), 1), HasPitch)

\* the number of markers of the given type and pitch
MarkerCount(markers, type, pitch) ==
    Cardinality({k \in DOMAIN markers :
                    markers[k].type = type /\ markers[k].pitch = pitch})

\* note_on ranks before note_off
TypeRank(type) == IF type = "note_on" THEN 0 ELSE 1

\* marker x does not come after marker y in (time, on before off, pitch)
InMarkerOrder(x, y) ==
    \/ FLt(x.time_sec, y.time_sec)
    \/ x.time_sec = y.time_sec /\ TypeRank(x.type) < TypeRank(y.type)
    \/ x.time_sec = y.time_sec /\ x.type = y.type /\ x.pitch <= y.pitch

\* C13: to_midi_events returns exactly one note_on and one note_off marker
\* for every NoteEvent or chord note that has a pitch and no other marker
\* (none for rests and pitchless notes), and the returned sequence is
\* sorted by (time, note_on before note_off at equal time, pitch).
C13_OnOffPerPitchedNoteSorted ==
    xpc = "returned" =>
        LET notes == PitchedNotes(midi_score)
        IN  /\ Len(midi_events) = 2 * Len(notes)
            /\ \A k \in DOMAIN midi_events :
                 /\ midi_events[k].type \in {"note_on", "note_off"}
                 /\ \A type \in {"note_on", "note_off"} :
                      MarkerCount(midi_events, type, midi_events[k].pitch)
                        = Cardinality({j \in DOMAIN notes :
                                          notes[j].pitch = midi_events[k].pitch})
            /\ \A j \in DOMAIN notes :
                 MarkerCount(midi_events, "note_on", notes[j].pitch) >= 1
            /\ \A k \in 1..(Len(midi_events) - 1) :
                 InMarkerOrder(midi_events[k], midi_events[k + 1])

\* C13 witness: the markers returned for a score that has a rest, a
\* pitchless note and a chord, where a note_on and a note_off fall on the
\* same time.
C13_Witness ==
    /\ xpc = "returned"
    /\ LET evs == EventsOfMeasures(MeasuresOf(midi_score, 1), 1)
       IN  /\ \E k \in DOMAIN evs : evs[k].kind = "rest"
           /\ \E k \in DOMAIN evs : evs[k].kind = "chord"
           /\ \E k \in DOMAIN NotesOf(evs, 1) : NotesOf(evs, 1)[k].pitch = None
    /\ \E k \in 1..(Len(midi_events) - 1) :
         /\ midi_events[k].time_sec = midi_events[k + 1].time_sec
         /\ midi_events[k].type = "note_on"
         /\ midi_events[k + 1].type = "note_off"

\* the sum of the durations of the events k..
RECURSIVE EventDurationSum(_, _)
EventDurationSum(evs, k) ==
    IF k > Len(evs) THEN FInt(0) ELSE FAdd(evs[k].duration, EventDurationSum(evs, k + 1))

\* the sum, over the measures before measure j, of their event durations
RECURSIVE OffsetBefore(_, _)
OffsetBefore(ms, j) ==
    IF j <= 1 THEN FInt(0)
    ELSE FAdd(OffsetBefore(ms, j - 1), EventDurationSum(ms[j - 1].events, 1))

\* beats at the tempo, in seconds
BeatsToSeconds(beats, tempo) == Frac(beats.n * 60, beats.d * tempo)

\* the markers hold the note_on and the note_off of note ne of a measure
\* that starts at offset beats
NoteIsMarked(markers, ne, offset, tempo) ==
    /\ \E k \in DOMAIN markers :
         /\ markers[k].type = "note_on" /\ markers[k].pitch = ne.pitch
         /\ markers[k].time_sec = BeatsToSeconds(FAdd(offset, ne.start), tempo)
    /\ \E k \in DOMAIN markers :
         /\ markers[k].type = "note_off" /\ markers[k].pitch = ne.pitch
         /\ markers[k].time_sec
              = BeatsToSeconds(FAdd(FAdd(offset, ne.start), ne.duration), tempo)

\* the one-note score of the example: start 0, duration 1
OneNoteScore ==
    <<SectionOf(<<ParseSystemBlock(BlockOf(<<"E|3-|">>, 0, 1), DefaultTimeSig).system>>)>>

\* C14: a pitched note of a measure gets note_on at (offset + start) *
\* 60/tempo seconds and note_off at (offset + start + duration) * 60/tempo
\* seconds, where offset is the sum over all preceding measures in document
\* order of each measure's total event duration (a measure of total zero
\* adds nothing); a single note with start 0 and duration 1 at tempo 120
\* gets note_on at 0 s and note_off at 1/2 s.
C14_MarkerTimesFromOffsets ==
    xpc = "returned" =>
        LET ms == MeasuresOf(midi_score, 1)
        IN  /\ \A j \in DOMAIN ms :
                 \A ne \in AllNotes(ms[j].events) :
                     ne.pitch # None =>
                         NoteIsMarked(midi_events, ne, OffsetBefore(ms, j), tempo_bpm)
            /\ (midi_score = OneNoteScore /\ tempo_bpm = 120) =>
                 /\ Len(midi_events) = 2
                 /\ midi_events[1].type = "note_on"
                 /\ midi_events[1].time_sec = FInt(0)
                 /\ midi_events[2].type = "note_off"
                 /\ midi_events[2].time_sec = Frac(1, 2)

\* C14 witness: the markers returned for a score whose last measure holds
\* a pitched note and follows both a measure without events and a measure
\* with events, so that its offset is positive.
C14_Witness ==
    /\ xpc = "returned"
    /\ LET ms == MeasuresOf(midi_score, 1)
       IN  /\ Len(ms) >= 3
           /\ \E j \in 1..(Len(ms) - 1) : ms[j].events = <<>>
           /\ FLt(FInt(0), OffsetBefore(ms, Len(ms)))
           /\ \E ne \in AllNotes(ms[Len(ms)].events) : ne.pitch # None
    /\ midi_events # <<>>

\* ------------------------------------------------------------------------
\* Properties of _render_measure (SpecRender)
\* ------------------------------------------------------------------------

\* every start of the events is below 64
AllStartsSmall(evs) == \A k \in DOMAIN evs : FLt(evs[k].start, FInt(64))

\* the width of the grid of the measure
GridWidth(measure) ==
    IF measure.raw_columns \in {None, 0}
    THEN InferMeasureWidth(measure.events) ELSE measure.raw_columns

\* the total measure beats of the proportional mapping: the sum of the
\* event durations, or 4 when that sum is zero
ProportionTotal(evs) ==
    IF EventDurationSum(evs, 1) = FInt(0) THEN FInt(4) ELSE EventDurationSum(evs, 1)

\* c is x rounded to the nearest integer, a tie going to the even one
IsRounded(x, c) ==
    /\ 2 * Abs(x.n - c * x.d) <= x.d
    /\ 2 * Abs(x.n - c * x.d) = x.d => c % 2 = 0

\* c is round((start / total) * (width - 1)) clamped to [0, width - 1]
IsProportionalCol(start, total, width, c) ==
    LET x == Frac(start.n * total.d * (width - 1), start.d * total.n)
    IN  \E c0 \in 0..(FFloor(x) + 1) :
            /\ IsRounded(x, c0)
            /\ c = IF c0 > width - 1 THEN width - 1 ELSE c0

\* c is floor(start)
IsLiteralCol(start, c) == c * start.d <= start.n /\ start.n < (c + 1) * start.d

\* the cells the note ne would fill from column c are filled with its text
NoteShownAt(grid, ne, c, width) ==
    (ne.string_index < Len(grid) /\ c < width) =>
        LET txt == IF ne.fret = None THEN "x"
                   ELSE IF ne.is_ghost THEN "(" \o IntToStr(ne.fret) \o ")"
                   ELSE IntToStr(ne.fret)
            fit == IF c + Len(txt) > width THEN width - c ELSE Len(txt)
        IN  Slice(grid[ne.string_index + 1], c, c + fit) = Slice(txt, 0, fit)

\* the event ev has just been placed at column c of the output out
EventShownAt(out, ev, c, width) ==
    /\ \A ne \in AllNotes(<<ev>>) : NoteShownAt(out.grid, ne, c, width)
    /\ (out.has_dur /\ c < width) => At(out.dur, c) \in DURATION_SYMBOLS

\* the event placed last is shown at a proportional column
LastShownProportional(measure, out, k) ==
    \E c \in 0..(GridWidth(measure) - 1) :
        /\ IsProportionalCol(measure.events[k].start, ProportionTotal(measure.events),
                             GridWidth(measure), c)
        /\ EventShownAt(out, measure.events[k], c, GridWidth(measure))

\* the event placed last is shown at the column floor(start)
LastShownLiteral(measure, out, k) ==
    \E c \in 0..FFloor(measure.events[k].start) :
        /\ IsLiteralCol(measure.events[k].start, c)
        /\ EventShownAt(out, measure.events[k], c, GridWidth(measure))

RECURSIVE GroupsFrom(_, _, _)
GroupsFrom(lines, k, cur) ==
    IF k > Len(lines) THEN <<cur>>
    ELSE IF Strip(lines[k]) # "" /\ IsTimestamp(lines[k])
    THEN <<cur>> \o GroupsFrom(lines, k + 1,
                               [timestamp |-> TimestampOf(lines[k]), lines |-> <<>>])
    ELSE GroupsFrom(lines, k + 1, [cur EXCEPT !.lines = Append(@, lines[k])])

\* the groups of the body that hold a string line, in document order
GroupsWithStrings(lines) ==
    SelectSeq(GroupsFrom(lines, 1, [timestamp |-> NoText, lines |-> <<>>]),
              LAMBDA g : \E k \in DOMAIN g.lines : IsStringLine(g.lines[k]))

\* the string lines of the systems k.. in order
RECURSIVE StringLinesOfSystems(_, _)
StringLinesOfSystems(systems, k) ==
    IF k > Len(systems) THEN <<>>
    ELSE SelectSeq(systems[k].raw_lines, IsStringLine)
         \o StringLinesOfSystems(systems, k + 1)

\* C17: after the parse every Section of the Score has at least one
\* System; the sections are, in document order, the groups of lines between
\* timestamp lines that hold a system, each with the mm:ss value of the
\* timestamp line that opened it (none for the lines before the first
\* timestamp line) and with the systems of exactly its own string lines.
C17_SectionsFollowTimestamps ==
    pc = "done" =>
        LET groups == GroupsWithStrings(body)
        IN  /\ Len(sections) = Len(groups)
            /\ \A k \in DOMAIN sections :
                 /\ sections[k].systems # <<>>
                 /\ k <= Len(groups) =>
                      /\ sections[k].timestamp = groups[k].timestamp
                      /\ StringLinesOfSystems(sections[k].systems, 1)
                           = SelectSeq(groups[k].lines, IsStringLine)

\* C17 witness: a parsed body where a system comes before a timestamp
\* line and another after it, which gives two sections, the second one
\* with the timestamp.
C17_Witness ==
    /\ pc = "done"
    /\ pass = 1
    /\ Len(sections) = 2
    /\ sections[1].timestamp = NoText
    /\ sections[2].timestamp = "1:07"
    /\ sections[2].systems # <<>>

\* ------------------------------------------------------------------------
\* Properties of the time signatures (Spec)
\* ------------------------------------------------------------------------

\* the groups closed so far, and the group cur if it has a system
ClosedGroups(acc, cur) == IF cur.system_ts # <<>> THEN Append(acc, cur) ELSE acc

\* what the lines k.. of a body declare: ts is the most recent time
\* signature line outside a system block, cur = [time_signature,
\* system_ts] holds the first such line since the last timestamp line and
\* the signature in force at each system block since then
RECURSIVE DeclaredFrom(_, _, _, _, _)
DeclaredFrom(lines, k, ts, cur, acc) ==
    IF k > Len(lines) THEN ClosedGroups(acc, cur)
    ELSE IF Strip(lines[k]) = "" THEN DeclaredFrom(lines, k + 1, ts, cur, acc)
    ELSE IF IsTimestamp(lines[k])
    THEN DeclaredFrom(lines, k + 1, ts, [time_signature |-> NoTimeSig, system_ts |-> <<>>],
                      ClosedGroups(acc, cur))
    ELSE IF IsTimeSig(lines[k])
    THEN DeclaredFrom(lines, k + 1, TimeSigOf(lines[k]),
                      IF cur.time_signature = NoTimeSig
                      THEN [cur EXCEPT !.time_signature = TimeSigOf(lines[k])] ELSE cur,
                      acc)
    ELSE IF CollectSystemBlock(lines, k - 1).consumed = 0
    THEN DeclaredFrom(lines, k + 1, ts, cur, acc)
    ELSE DeclaredFrom(lines, k + CollectSystemBlock(lines, k - 1).consumed, ts,
                      [cur EXCEPT !.system_ts = Append(@, ts)], acc)

\* C18: every measure's time signature is the most recent time-signature
\* line outside a system block before the measure's system (4/4 when there
\* is none), whatever timestamp lines lie between; a section's declared
\* time signature is the first such line seen while the section was
\* current and is absent when there was none.
C18_TimeSignaturePersists ==
    pc = "done" =>
        LET declared == DeclaredFrom(body, 1, [numerator |-> 4, denominator |-> 4],
                                     [time_signature |-> NoTimeSig, system_ts |-> <<>>],
                                     <<>>)
        IN  /\ Len(sections) = Len(declared)
            /\ \A k \in DOMAIN sections :
                 k <= Len(declared) =>
                    /\ sections[k].time_signature = declared[k].time_signature
                    /\ Len(sections[k].systems) = Len(declared[k].system_ts)
                    /\ \A j \in DOMAIN sections[k].systems :
                         /\ sections[k].systems[j].measures # <<>>
                         /\ \A m \in DOMAIN sections[k].systems[j].measures :
                              j <= Len(declared[k].system_ts) =>
                                sections[k].systems[j].measures[m].time_signature
                                  = declared[k].system_ts[j]

\* C18 witness: a parsed body where a time-signature line precedes a
\* timestamp line: the section opened by the timestamp declares no time
\* signature, yet its measures carry the earlier 3/4.
C18_Witness ==
    /\ pc = "done"
    /\ pass = 1
    /\ \E k \in DOMAIN sections :
         /\ sections[k].timestamp = "1:07"
         /\ sections[k].time_signature = NoTimeSig
         /\ \E j \in DOMAIN sections[k].systems :
              \E m \in DOMAIN sections[k].systems[j].measures :
                  sections[k].systems[j].measures[m].time_signature
                    = [numerator |-> 3, denominator |-> 4]

\* ------------------------------------------------------------------------
\* Properties of _collect_system_block and of the line classifiers
\* ------------------------------------------------------------------------

IsBlankLine(s) == Strip(s) = ""

\* neither a string line nor an annotation, duration or time-signature line
IsUnrecognizedLine(s) ==
    /\ ~IsBlankLine(s)
    /\ ~IsStringLine(s)
    /\ ~IsAnnotationOrDuration(s)
    /\ ~IsTimeSig(Strip(s))

EndsSearch(s) == IsBlankLine(s) \/ IsTimestamp(s) \/ IsUnrecognizedLine(s)

\* a string line comes at or after index start, and no line from start up
\* to it is blank, a timestamp or unrecognized
ReachesStringLine(lines, start) ==
    \E k \in (start + 1)..Len(lines) :
        /\ IsStringLine(lines[k])
        /\ \A j \in (start + 1)..(k - 1) : ~EndsSearch(lines[j])

BlockHasStringLine(blk) == \E k \in 1..Len(blk) : IsStringLine(blk[k].text)

\* C19: _collect_system_block returns ([], 0) exactly when no string line
\* is reached before a blank line, a timestamp line, an unrecognized line
\* or the end of input; otherwise the block has at least one string line
\* and no blank, timestamp, header-field or unrecognized line.
C19_BlockEmptyIffNoStringLineElseClean ==
    cpc = "returned" =>
        /\ (c_out.block = <<>> /\ c_out.consumed = 0)
               <=> ~ReachesStringLine(c_lines, c_start)
        /\ c_out.block # <<>> =>
               /\ BlockHasStringLine(c_out.block)
               /\ \A k \in 1..Len(c_out.block) :
                      /\ ~IsBlankLine(c_out.block[k].text)
                      /\ ~IsTimestamp(c_out.block[k].text)
                      /\ ~IsHeaderFieldLine(c_out.block[k].text)
                      /\ ~IsUnrecognizedLine(c_out.block[k].text)

\* a line that begins with a bare |
BeginsWithBareBar(s) == At(Strip(s), 0) = "|"

\* C20: for every line, _is_string_line and _is_annotation_or_duration are
\* never both true, and a line that begins with a bare | and contains a
\* triplet marker or a palm-mute marker is an annotation line and not a
\* string line.
C20_NoLineDoubleClassified ==
    cpc = "returned" => \A k \in 1..Len(c_lines) :
        /\ ~(IsStringLine(c_lines[k]) /\ IsAnnotationOrDuration(c_lines[k]))
        /\ (BeginsWithBareBar(c_lines[k])
                /\ (TripletSearch(Strip(c_lines[k])) \/ Contains(c_lines[k], "PM")))
               => (IsAnnotationOrDuration(c_lines[k]) /\ ~IsStringLine(c_lines[k]))

\* ------------------------------------------------------------------------
\* Properties of render_tab (Spec)
\* ------------------------------------------------------------------------

\* what the round trip compares of a section
SectionView(sec) ==
    [timestamp |-> sec.timestamp,
     time_signature |-> sec.time_signature,
     systems |-> [k \in DOMAIN sec.systems |->
                     [tuning |-> sec.systems[k].tuning,
                      raw_lines |-> sec.systems[k].raw_lines,
                      measures |-> sec.systems[k].measures]]]

ScoreView(secs) == [k \in DOMAIN secs |-> SectionView(secs[k])]

\* C21: when a text that parses has been rendered with render_tab and the
\* rendered text parsed again, the second parse succeeds with the same
\* sections (timestamp, declared time signature), the same systems
\* (tuning, raw lines) and the same measures (barlines, effective time
\* signature, raw width, events) as the first.
C21_RawRoundTripIsStable ==
    (pass = 3 /\ pc \in {"done", "failed"})
        => (pc = "done" /\ ScoreView(sections) = ScoreView(first.sections))

\* ------------------------------------------------------------------------
\* Properties of the time cursor of _parse_measure_events (SpecMeasure)
\* ------------------------------------------------------------------------

\* the sum of the durations of the events 1..k-1
RECURSIVE DurationsBefore(_, _)
DurationsBefore(evs, k) ==
    IF k <= 1 THEN FInt(0)
    ELSE FAdd(DurationsBefore(evs, k - 1), evs[k - 1].duration)

\* C22: in duration-driven mode the k-th event of a measure starts at the
\* sum of the durations of the events before it, whatever their kinds, the
\* first at 0; the starts are non-decreasing in sequence order.
C22_StartIsSumOfEarlierDurations ==
    (mpc = "done" /\ has_dur) =>
        /\ \A k \in DOMAIN events : events[k].start = DurationsBefore(events, k)
        /\ \A k \in DOMAIN events :
               k > 1 => FLe(events[k - 1].start, events[k].start)

\* C22 witness: a parsed duration-driven measure whose last event follows a
\* rest and a note or chord, and starts after 0.
C22_Witness ==
    /\ mpc = "done"
    /\ has_dur
    /\ Len(events) >= 3
    /\ \E a, b \in 1..(Len(events) - 1) :
           events[a].kind = "rest" /\ events[b].kind \in {"note", "chord"}
    /\ FLt(FInt(0), events[Len(events)].start)

\* ------------------------------------------------------------------------
\* Properties of _maybe_parse_duration_at (SpecMeasure)
\* ------------------------------------------------------------------------

\* the column of the symbol of the token that starts at column t
SymbolCol(s, t) == IF At(s, t) = "+" THEN t + 1 ELSE t

\* the column after the dots that follow the symbol
DotsEnd(s, t) == SpanEnd(s, SymbolCol(s, t) + 1, {"."})

DotsAt(s, t) == DotsEnd(s, t) - (SymbolCol(s, t) + 1)

\* the token at column t is W, its dots, then x<digits>
IsDottedWxn(s, t) ==
    /\ At(s, SymbolCol(s, t)) = "W"
    /\ At(s, DotsEnd(s, t)) = "x"
    /\ IsDigit(At(s, DotsEnd(s, t) + 1))

\* the column after the digits of the suffix
SuffixEnd(s, t) == SpanEnd(s, DotsEnd(s, t) + 1, Digits)

\* the token found at t carries the count and the scan resumes after the digits
CarriesCount(s, t) ==
    /\ MaybeParseDurationAt(s, t).token.multibar_rests
           = ParseInt(s, DotsEnd(s, t) + 1, SuffixEnd(s, t))
    /\ MaybeParseDurationAt(s, t).token.raw = Slice(s, t, SuffixEnd(s, t))
    /\ MaybeParseDurationAt(s, t).consumed = SuffixEnd(s, t) - t

\* the token found at t ends after its dots and has no count
EndsAfterDots(s, t) ==
    /\ MaybeParseDurationAt(s, t).token.multibar_rests = None
    /\ MaybeParseDurationAt(s, t).token.dotted = DotsAt(s, t)
    /\ MaybeParseDurationAt(s, t).token.raw = Slice(s, t, DotsEnd(s, t))
    /\ MaybeParseDurationAt(s, t).consumed = DotsEnd(s, t) - t

TokenColumnSet(s) == {TokenColumns(s, 0)[k] : k \in DOMAIN TokenColumns(s, 0)}

Walked == mpc \in {"done", "raised"} /\ has_dur

\* C23: where the scan of a duration line meets W, its dots and x<digits>,
\* the suffix belongs to the token only when no dot stands between W and
\* x: then the token carries the count and the scan resumes after the
\* digits; with one or more dots the token ends after the dots without a
\* count, and the scan resumes at the x.
C23_SuffixOnlyDirectlyAfterW ==
    Walked => \A t \in TokenColumnSet(dur_slice) :
        IsDottedWxn(dur_slice, t) =>
            IF DotsAt(dur_slice, t) = 0 THEN CarriesCount(dur_slice, t)
            ELSE /\ EndsAfterDots(dur_slice, t)
                 /\ DotsEnd(dur_slice, t) \in TokenColumnSet(dur_slice)

\* C23 witness: a walked duration line in which the scan met W.x<digits>
\* or W..x<digits>.
C23_Witness ==
    /\ Walked
    /\ \E t \in TokenColumnSet(dur_slice) :
           IsDottedWxn(dur_slice, t) /\ DotsAt(dur_slice, t) >= 1

\* C23 as stated: W followed by zero, one or two dots and x<digits> is one
\* token that carries the count, and the scan resumes after the digits.
C23_DottedWCarriesCount ==
    Walked => \A t \in TokenColumnSet(dur_slice) :
        (IsDottedWxn(dur_slice, t) /\ DotsAt(dur_slice, t) <= 2)
            => CarriesCount(dur_slice, t)

\* C24: every token the walk of a duration line has produced has a dot
\* count of 0, 1 or 2, whatever run of dots follows its symbol.
C24_AtMostTwoDots ==
    (has_dur /\ mpc \in {"walk", "done", "raised"} /\ walk.token # NoToken)
        => walk.token.dotted \in 0..2

\* ------------------------------------------------------------------------
\* Properties of _tuning_to_open_midi (SpecSystem)
\* ------------------------------------------------------------------------

\* the open pitch that _assign_pitches used for a pitched note
OpenPitchOf(ne) == ne.pitch - ne.fret

\* C25: the open pitch class of every string is the class of the label's
\* letter, raised by one semitone (mod 12) for # and lowered by one (mod
\* 12) for b; only a letter outside A-G gives the class of E.
C25_OpenPitchClassFromLabel ==
    spc = "parsed" =>
        \A j \in DOMAIN system_out.system.measures :
            \A ne \in AllNotes(system_out.system.measures[j].events) :
                ne.pitch # None =>
                    OpenPitchOf(ne) % 12
                        = PitchClassOf(system_out.system.tuning[ne.string_index + 1])

\* ------------------------------------------------------------------------
\* Properties of the grid of _render_measure (SpecRender)
\* ------------------------------------------------------------------------

Larger(a, b) == IF a > b THEN a ELSE b
Smaller(a, b) == IF a < b THEN a ELSE b

\* the stored raw column width, or clamp(max(8, 3 x event count), 16, 96)
StatedWidth(measure) ==
    IF measure.raw_columns # None THEN measure.raw_columns
    ELSE Smaller(Larger(Larger(8, 3 * Len(measure.events)), 16), 96)

\* C26: from the creation of the grid to the return of _render_measure,
\* the grid has one row per string and every row has exactly w cells when
\* the measure stores the raw column width w (w >= 0), and
\* min(max(max(8, 3 x event count), 16), 96) cells when it stores none.
C26_GridHasStatedWidth ==
    rpc \in {"place", "returned"} =>
        /\ Len(r_out.grid) = r_strings
        /\ \A k \in DOMAIN r_out.grid : Len(r_out.grid[k]) = StatedWidth(r_measure)

\* ------------------------------------------------------------------------
\* Properties of the diagnostics of parse_tab (Spec)
\* ------------------------------------------------------------------------

\* the line of the parsed text that has the 1-based number n
TextLine(n) == IF n \in 1..Len(text) THEN text[n] ELSE NoLine

\* the diagnostic w names the line of the text it is about
NamesItsLine(w) ==
    IF w.message = InconsistentMessage
    THEN w.line_no \in 1..Len(text) /\ IsStringLine(TextLine(w.line_no))
    ELSE w.message = "Unrecognized line skipped: " \o Repr(TextLine(w.line_no))

\* C27: every diagnostic of a parsed text carries the 1-based number that
\* the offending line has in the text given to parse_tab, header lines
\* counted: an unrecognized-line diagnostic that of the line it quotes, an
\* inconsistent-barline diagnostic that of a string line.
C27_DiagnosticsCarryTextLineNumbers ==
    pc = "done" => \A k \in DOMAIN warnings : NamesItsLine(warnings[k])

\* ------------------------------------------------------------------------
\* Properties of the body scan of _parse_sections (Spec)
\* ------------------------------------------------------------------------

CountIn(seq, x) == Cardinality({k \in DOMAIN seq : seq[k] = x})

\* the same lines, each as often, in any order
SameLines(a, b) ==
    /\ Len(a) = Len(b)
    /\ \A k \in DOMAIN a : CountIn(a, a[k]) = CountIn(b, a[k])

\* the block returned at index i is made of the consumed consecutive lines
BlockIsConsumedLines(got) ==
    /\ got.consumed = Len(got.block)
    /\ \A k \in DOMAIN got.block :
           got.block[k] = [no |-> i + k, text |-> body[i + k]]

\* the step left the sections and the systems as they were
SystemsKept ==
    /\ sections' = sections
    /\ current_section'.systems = current_section.systems

\* the step skipped the line at i with one diagnostic
SkippedWithOneDiagnostic ==
    /\ i' = i + 1
    /\ Len(warnings') = Len(warnings) + 1
    /\ SubSeq(warnings', 1, Len(warnings)) = warnings
    /\ warnings'[Len(warnings')].line_no = i + 1
    /\ warnings'[Len(warnings')].message # InconsistentMessage
    /\ SystemsKept

\* the step made the lines i+1..i' the raw lines of one new system
BecameOneSystem ==
    /\ sections' = sections
    /\ Len(current_section'.systems) = Len(current_section.systems) + 1
    /\ SubSeq(current_section'.systems, 1, Len(current_section.systems))
           = current_section.systems
    /\ SameLines(current_section'.systems[Len(current_section'.systems)].raw_lines,
                 SubSeq(body, i + 1, i'))
    /\ i' - i = CollectSystemBlock(body, i).consumed
    /\ BlockIsConsumedLines(CollectSystemBlock(body, i))
    /\ \A k \in DOMAIN warnings' :
           k > Len(warnings) => warnings'[k].message = InconsistentMessage

\* what one step of the loop does with the lines it consumes
StepConsumes ==
    /\ i' > i
    /\ i' <= Len(body)
    /\ body' = body
    /\ IF Strip(body[i + 1]) = ""
       THEN i' = i + 1 /\ warnings' = warnings /\ SystemsKept
       ELSE IF IsTimestamp(body[i + 1])
       THEN /\ i' = i + 1 /\ warnings' = warnings
            /\ current_section'.timestamp = TimestampOf(body[i + 1])
            /\ current_section'.systems = <<>>
       ELSE IF IsTimeSig(body[i + 1])
       THEN /\ i' = i + 1 /\ warnings' = warnings
            /\ current_ts' = TimeSigOf(body[i + 1])
            /\ SystemsKept
       ELSE (SkippedWithOneDiagnostic /\ ~BecameOneSystem)
            \/ (BecameOneSystem /\ ~SkippedWithOneDiagnostic)

\* C28: the body scan terminates and consumes each line once. The line
\* index never passes the end of the body, and every loop step that does
\* not raise advances it by at least one, so the number of lines left
\* decreases until the scan ends; the lines a step passes are a blank
\* line, a timestamp, a top-level time signature, a line skipped with
\* exactly one diagnostic, or the consecutive lines that
\* _collect_system_block returned (consumed = number of pairs), which
\* become the raw lines of exactly one system.
C28_ScanEndsConsumingEachLineOnce ==
    /\ [](pc = "body" => i <= Len(body))
    /\ [][(pc = "body" /\ i < Len(body) /\ pc' = "body") => StepConsumes]_vars

\* C28 witness: a finished scan of three body lines that skipped a line
\* with a diagnostic and made two lines one system.
C28_Witness ==
    /\ pc = "done"
    /\ pass = 1
    /\ Len(body) = 3
    /\ \E k \in DOMAIN warnings : warnings[k].message # InconsistentMessage
    /\ \E a \in DOMAIN sections : \E b \in DOMAIN sections[a].systems :
           Len(sections[a].systems[b].raw_lines) = 2

\* ------------------------------------------------------------------------
\* Properties of _render_system (Spec)
\* ------------------------------------------------------------------------

\* the systems of the sections k.. in document order
RECURSIVE SystemsOf(_, _)
SystemsOf(secs, k) ==
    IF k > Len(secs) THEN <<>> ELSE secs[k].systems \o SystemsOf(secs, k + 1)

\* the left and right barline kind of each measure of a system
BarKinds(system) ==
    [j \in DOMAIN system.measures |->
        <<system.measures[j].barline_left, system.measures[j].barline_right>>]

\* for each system, the barline kinds of its measures
BarView(secs) == [k \in DOMAIN SystemsOf(secs, 1) |-> BarKinds(SystemsOf(secs, 1)[k])]

\* every string line of the score was labeled
AllLabeled(secs) ==
    \A k \in DOMAIN SystemsOf(secs, 1) :
        \A si \in DOMAIN SystemsOf(secs, 1)[k].tuning :
            SystemsOf(secs, 1)[k].tuning[si] # "?"

\* C29: when a score with labeled string lines has been rendered with
\* render_tab_from_model and the rendered text parsed again, each system
\* has the same number of measures and each measure the same left and
\* right barline kind as in the first parse.
C29_BarlinesSurviveRendering ==
    (pass = 2 /\ pc = "done" /\ AllLabeled(first.sections))
        => BarView(sections) = BarView(first.sections)

\* ------------------------------------------------------------------------
\* Properties of the notes of duration-driven mode (SpecMeasure)
\* ------------------------------------------------------------------------

\* column c of the row is a digit of a fret number, and not its first
InsideNumber(row, c) == IsDigit(At(row, c)) /\ IsDigit(At(row, c - 1))

\* the notes of one event
EventNotes(ev) ==
    IF ev.kind = "note" THEN {ev}
    ELSE IF ev.kind = "chord" THEN {ev.notes[k] : k \in DOMAIN ev.notes}
    ELSE {}

\* C30: in duration-driven mode a duration token whose column falls inside
\* a multi-digit fret number of a string line, not on its first digit,
\* produces no note on that string, so that every fret is the value of a
\* complete run of digits and each fret number yields at most one note.
C30_NoNoteFromInsideANumber ==
    (mpc = "done" /\ has_dur) =>
        \A k \in DOMAIN events : \A si \in 0..(Len(string_slices) - 1) :
            InsideNumber(string_slices[si + 1], TokenColumns(dur_slice, 0)[k])
                => \A ne \in EventNotes(events[k]) : ne.string_index # si

====
